---- MODULE Spec2Model ----
(***************************************************************************)
(* Node networking core of the ESP32 bot firmwares: the ESP-NOW wire       *)
(* frame, the peer registry and send path, the receive dispatch, the       *)
(* emergency relay and the MCP server discovery.                           *)
(*                                                                         *)
(* Four firmware variants share the design and differ in the details:      *)
(*   "speedie"    bots/speedie_bot/src/main.cpp                            *)
(*   "generic"    generic_bot_template/src/main.cpp                        *)
(*   "wificlient" examples/bot_wifi_client/src/main.cpp                    *)
(*   "espnow"     examples/esp_now_example/src/main.cpp                    *)
(*                                                                         *)
(* C strings are sequences of byte values; a frame is the byte image of    *)
(* esp_now_message_t, one element per byte of the struct.                  *)
(***************************************************************************)
EXTENDS Integers, Sequences, FiniteSets, TLC

VARIABLES
    \* ---- frame construction and decoding (SpecFrame)
    fpc,        \* "input" -> "sent" -> "read"
    fVariant,   \* firmware variant of sender and receiver
    fBotID,     \* botID of the sender
    fType,      \* messageType argument of the send
    fPayload,   \* payload argument of the send
    fNow,       \* millis() at the send
    fFrame,     \* bytes handed to esp_now_send
    fResult,    \* what esp_now_send returned
    fOverflow,  \* a strcpy wrote past the end of the struct
    fRead,      \* the strings the receive callback reads from the frame
    \* ---- link layer of two nodes of one variant (SpecLink)
    lVariant,   \* firmware variant both nodes run
    lKnown,     \* per node: the knownPeers / KNOWN_PEERS table it was built with
    lpc,        \* per node: "boot" before setup() has run, "loop" after
    lPeers,     \* per node: the radio's peer list, in order of registration
    lNet,       \* frames the radio accepted and has not delivered yet
    lRecv,      \* per node: what its receive callback read last
    lOp,        \* the handler that ran last and the node it ran on
    lAdds,      \* the addESPNowPeer calls of that handler, in order
    lSends,     \* the sendESPNowMessage calls of that handler, in order
    lTicks,     \* loop-side handlers run so far
    \* ---- mesh of nodes running the ESP-NOW example (SpecMesh)
    mpc,        \* per node: "boot" before setup() has run, "loop" after
    mPeers,     \* per node: the radio's peer list, in order of registration
    mNet,       \* frames on the air, oldest first
    mStats,     \* per node: networkStats.messagesSent / messagesReceived
    mLast,      \* what the last receive callback read and what it sent
    mInjected,  \* frames that reached the mesh from outside
    \* ---- one node and the MCP server it reports to (SpecNode)
    nVariant,       \* firmware variant of the node
    nFallback,      \* MCP_SERVER_IP_FALLBACK of its config.h
    nName,          \* BOT_CUSTOM_NAME of its config.h
    nMac,           \* ESP.getEfuseMac(), six bytes, most significant first
    nBotID,          \* the node's id, empty until setup() assigns it
    npc,            \* "boot" before setup() has run, "loop" after
    nWifi,          \* WiFi.status() == WL_CONNECTED
    mcpServerIP,    \* the server's host, "" while unknown
    mcpServerPort,  \* the server's port
    botStatus,      \* the status snapshot: status, batteryLevel in tenths
    nLast,          \* what the handler that ran last did
    \* ---- the endpoint as the loop and the radio callbacks see it (SpecEndpoint)
    eFallback,      \* MCP_SERVER_IP_FALLBACK of config.h
    eWifi,          \* WiFi.status() == WL_CONNECTED
    eServerIP,      \* the global mcpServerIP
    eServerPort,    \* the global mcpServerPort
    epc,            \* where the loop task is within an assignment of the endpoint
    ePending,       \* the endpoint the loop task is assigning
    eAssigned,      \* the endpoints assigned so far
    cpc,            \* where the callback is within sendESPNowActivity
    cHost,          \* the host the callback has read
    cPort,          \* the port the callback has read
    eReq,           \* the request the callback built last
    \* ---- the millisecond clock and the timers of loop() (SpecSched)
    sVariant,       \* firmware variant of the node
    spc,            \* where the Arduino task is: WiFi association, top of loop(), timed tasks
    sMillis,        \* millis(), 32 bits
    sWifi,          \* WiFi.status() == WL_CONNECTED
    sAttempts,      \* attempts of the initializeWiFi call in progress or last made
    currentTime,    \* the sample of millis() this loop() iteration took
    sLast,          \* lastStatusUpdate, or networkStats.lastHeartbeat in the ESP-NOW example
    sElapsed,       \* milliseconds passed since the sample held in sLast was taken
    sAtSample,      \* sElapsed when currentTime was sampled
    sSince,         \* milliseconds passed since the timed task last began, -1 before the first
    sLoops,         \* loop() iterations finished
    sFired,         \* the last test of the timer: its result, and the two times when it fired
    sReport,        \* what the last initializeWiFi call reported
    \* ---- the motion alert of wheelie (SpecMotion)
    mPin,           \* digitalRead(RCWL_5016_PIN): the sensor sees motion
    motionDetected, \* motionDetected
    isMotionMode,   \* isMotionMode
    mAge,           \* millis() - lastMotionTime, counted no further than just past the exit time
    \* ---- networkStats under the loop task and the receive callback (SpecCount)
    messagesSent,   \* networkStats.messagesSent
    messagesReceived, \* networkStats.messagesReceived
    tpc,            \* the loop task inside networkStats.messagesSent++
    tReg,           \* the value the loop task has loaded
    rpc,            \* the WiFi task inside onDataReceive
    rReg,           \* the value the WiFi task has loaded
    okSends,        \* esp_now_send calls that returned ESP_OK
    framesIn,       \* frames the radio has delivered
    loopSends       \* esp_now_send calls the loop task has made

frameVars == <<fpc, fVariant, fBotID, fType, fPayload, fNow, fFrame, fResult,
               fOverflow, fRead>>

linkVars == <<lVariant, lKnown, lpc, lPeers, lNet, lRecv, lOp, lAdds, lSends, lTicks>>

meshVars == <<mpc, mPeers, mNet, mStats, mLast, mInjected>>

nodeVars == <<nVariant, nFallback, nName, nMac, nBotID, npc, nWifi,
              mcpServerIP, mcpServerPort, botStatus, nLast>>

endpointVars == <<eFallback, eWifi, eServerIP, eServerPort, epc, ePending,
                  eAssigned, cpc, cHost, cPort, eReq>>

schedVars == <<sVariant, spc, sMillis, sWifi, sAttempts, currentTime, sLast,
               sElapsed, sAtSample, sSince, sLoops, sFired, sReport>>

motionVars == <<mPin, motionDetected, isMotionMode, mAge>>

countVars == <<messagesSent, messagesReceived, tpc, tReg, rpc, rReg, okSends, framesIn, loopSends>>

vars ==
    <<frameVars, linkVars, meshVars, nodeVars, endpointVars, schedVars,
      motionVars, countVars>>

\* What each specification leaves alone.
notFrame ==
    <<linkVars, meshVars, nodeVars, endpointVars, schedVars, motionVars,
      countVars>>
notLink ==
    <<frameVars, meshVars, nodeVars, endpointVars, schedVars, motionVars,
      countVars>>
notMesh ==
    <<frameVars, linkVars, nodeVars, endpointVars, schedVars, motionVars,
      countVars>>
notNode ==
    <<frameVars, linkVars, meshVars, endpointVars, schedVars, motionVars,
      countVars>>
notEndpoint ==
    <<frameVars, linkVars, meshVars, nodeVars, schedVars, motionVars,
      countVars>>
notSched ==
    <<frameVars, linkVars, meshVars, nodeVars, endpointVars, motionVars,
      countVars>>
notMotion ==
    <<frameVars, linkVars, meshVars, nodeVars, endpointVars, schedVars,
      countVars>>
notCount ==
    <<frameVars, linkVars, meshVars, nodeVars, endpointVars, schedVars,
      motionVars>>

\* ------------------------------------------------------------------------
\* The parts a specification does not exercise stay as they are here.
\* ------------------------------------------------------------------------

FrameIdle ==
    /\ fpc = "idle" /\ fVariant = "none" /\ fBotID = <<>> /\ fType = <<>>
    /\ fPayload = <<>> /\ fNow = [hi |-> 0, lo |-> 0] /\ fFrame = <<>>
    /\ fResult = "none" /\ fOverflow = FALSE
    /\ fRead = [sender_id |-> <<>>, message_type |-> <<>>, payload |-> <<>>]

LinkIdle ==
    /\ lVariant = "none" /\ lKnown = <<>> /\ lpc = <<>> /\ lPeers = <<>> /\ lNet = <<>> /\ lRecv = <<>>
    /\ lOp = <<>> /\ lAdds = <<>> /\ lSends = <<>> /\ lTicks = 0

MeshIdle ==
    /\ mpc = <<>> /\ mPeers = <<>> /\ mNet = <<>> /\ mStats = <<>>
    /\ mLast = <<>> /\ mInjected = 0

NodeIdle ==
    /\ nVariant = "none" /\ nFallback = "" /\ npc = "idle" /\ nWifi = FALSE
    /\ nName = <<>> /\ nMac = <<>> /\ nBotID = <<>>
    /\ mcpServerIP = "" /\ mcpServerPort = 0 /\ botStatus = <<>>
    /\ nLast = <<>>

EndpointIdle ==
    /\ eFallback = "" /\ eWifi = FALSE /\ eServerIP = "" /\ eServerPort = 0
    /\ epc = "off" /\ ePending = <<>> /\ eAssigned = {} /\ cpc = "off"
    /\ cHost = "" /\ cPort = 0 /\ eReq = <<>>

SchedIdle ==
    /\ sVariant = "none" /\ spc = "off" /\ sMillis = [hi |-> 0, lo |-> 0]
    /\ sWifi = FALSE /\ sAttempts = 0 /\ currentTime = [hi |-> 0, lo |-> 0]
    /\ sLast = [hi |-> 0, lo |-> 0] /\ sElapsed = 0 /\ sAtSample = 0
    /\ sSince = 0 /\ sLoops = 0 /\ sFired = <<>>
    /\ sReport = "none"

MotionIdle ==
    /\ mPin = FALSE /\ motionDetected = FALSE /\ isMotionMode = FALSE
    /\ mAge = 0

CountIdle ==
    /\ messagesSent = 0 /\ messagesReceived = 0 /\ tpc = "off" /\ tReg = 0
    /\ rpc = "off" /\ rReg = 0 /\ okSends = 0 /\ framesIn = 0 /\ loopSends = 0

\* ------------------------------------------------------------------------
\* Bounds of the model
\* ------------------------------------------------------------------------

\* String lengths tried lie within MaxExtra of a field boundary.
MaxExtra == 2

\* Loop-side handlers (registrations, heartbeat and status rounds) per run.
MaxTicks == 2

\* Frames that reach the mesh from outside.
MaxInject == 1

\* loop() iterations per run of the timer model.
MaxLoops == 8

\* Sends of the loop task, and frames delivered, per run of the counter model.
MaxSends == 3

\* loop() iterations that pass, with the battery draining, between two of
\* the events of SpecNode.
IdleRun == 200

\* ------------------------------------------------------------------------
\* Strings
\* ------------------------------------------------------------------------

Variants == {"speedie", "generic", "wificlient", "espnow"}

T_heartbeat     == <<104, 101, 97, 114, 116, 98, 101, 97, 116>>
T_heartbeat_ack == <<104, 101, 97, 114, 116, 98, 101, 97, 116, 95, 97, 99, 107>>
T_status        == <<115, 116, 97, 116, 117, 115>>
T_status_ack    == <<115, 116, 97, 116, 117, 115, 95, 97, 99, 107>>
T_command       == <<99, 111, 109, 109, 97, 110, 100>>
T_response      == <<114, 101, 115, 112, 111, 110, 115, 101>>
T_emergency     == <<101, 109, 101, 114, 103, 101, 110, 99, 121>>
T_sensor_data   == <<115, 101, 110, 115, 111, 114, 95, 100, 97, 116, 97>>
S_ack           == <<95, 97, 99, 107>>
S_response      == <<95, 114, 101, 115, 112, 111, 110, 115, 101>>

\* The message types of the enumeration.
MessageTypes == {T_heartbeat, T_heartbeat_ack, T_status, T_status_ack,
                 T_command, T_response, T_emergency, T_sensor_data}

\* A string of n non-zero bytes (letters A..Z repeating).
Str(n) == [i \in 1..n |-> 65 + (i % 26)]

\* String::endsWith
endsWith(s, suffix) ==
    /\ Len(s) >= Len(suffix)
    /\ SubSeq(s, Len(s) - Len(suffix) + 1, Len(s)) = suffix

Min(a, b) == IF a < b THEN a ELSE b

\* ------------------------------------------------------------------------
\* esp_now_message_t
\* ------------------------------------------------------------------------

\* The link MTU the firmware checks its struct against.
ESP_NOW_MAX == 250

\* Sizes of the char arrays of the struct; hop says whether hop_count exists.
Fields(v) ==
    CASE v = "speedie"    -> [sender_id |-> 24, message_type |-> 12, payload |-> 128, hop |-> FALSE]
      [] v = "generic"    -> [sender_id |-> 24, message_type |-> 12, payload |-> 128, hop |-> FALSE]
      [] v = "wificlient" -> [sender_id |-> 32, message_type |-> 16, payload |-> 200, hop |-> FALSE]
      [] v = "espnow"     -> [sender_id |-> 32, message_type |-> 16, payload |-> 200, hop |-> TRUE]

RoundUp4(n) == ((n + 3) \div 4) * 4

\* Byte offsets (0-based) of the members and sizeof, with the uint32_t member
\* aligned to 4 and the struct padded to its alignment.
Layout(v) ==
    LET f     == Fields(v)
        typeO == f.sender_id
        payO  == typeO + f.message_type
        tsO   == RoundUp4(payO + f.payload)
        hopO  == tsO + 4
        end   == IF f.hop THEN hopO + 1 ELSE hopO
    IN  [sender_id |-> 0, message_type |-> typeO, payload |-> payO,
         timestamp |-> tsO, hop_count |-> hopO, size |-> RoundUp4(end)]

\* ------------------------------------------------------------------------
\* Writing the struct
\* ------------------------------------------------------------------------

\* The first n elements of s, or all of s.
Take(s, n) == SubSeq(s, 1, Min(n, Len(s)))

Zeros(k) == [i \in 1..k |-> 0]

\* strncpy(mem + off, src, n): exactly n bytes are written, the string and
\* then zeros; no terminator is written when src has n bytes or more.
strncpy(mem, off, src, n) ==
    LET copied == Take(src, n)
    IN  SubSeq(mem, 1, off) \o copied \o Zeros(n - Len(copied))
            \o SubSeq(mem, off + n + 1, Len(mem))

\* strcpy(mem + off, src): the string and its terminator, however long.
\* Bytes that fall past the end of the struct are not part of the frame.
strcpy(mem, off, src) ==
    SubSeq(mem, 1, off) \o Take(src \o <<0>>, Len(mem) - off)
        \o SubSeq(mem, off + Len(src) + 2, Len(mem))

\* mem[off] = b for a 0-based offset.
setByte(mem, off, b) == [mem EXCEPT ![off + 1] = b]

\* A uint32_t value as its two 16-bit halves.
U32(hi, lo) == [hi |-> hi % 65536, lo |-> lo % 65536]

\* A little-endian uint32_t at off.
setU32(mem, off, x) ==
    LET b == <<x.lo % 256, x.lo \div 256, x.hi % 256, x.hi \div 256>>
    IN  SubSeq(mem, 1, off) \o b \o SubSeq(mem, off + 5, Len(mem))

\* The bytes of the struct after the three copies, per variant. g is the
\* value the uninitialised bytes of the local variable happen to hold.
CopyStrings(v, botID, messageType, payload, g) ==
    LET f  == Fields(v)
        L  == Layout(v)
        m0 == [i \in 1..L.size |-> IF v = "speedie" THEN 0 ELSE g]
    IN  IF v = "espnow"
        THEN strcpy(strcpy(strcpy(m0, L.sender_id, botID),
                           L.message_type, messageType),
                    L.payload, payload)
        ELSE LET m1 == strncpy(m0, L.sender_id, botID, f.sender_id - 1)
                 m2 == strncpy(m1, L.message_type, messageType, f.message_type - 1)
                 m3 == strncpy(m2, L.payload, payload, f.payload - 1)
             IN  IF v = "generic"
                 THEN setByte(setByte(setByte(m3,
                          L.sender_id + f.sender_id - 1, 0),
                          L.message_type + f.message_type - 1, 0),
                          L.payload + f.payload - 1, 0)
                 ELSE m3

\* The frame a send hands to esp_now_send: the whole struct, sizeof bytes.
BuildFrame(v, botID, messageType, payload, now, g) ==
    LET L  == Layout(v)
        m  == setU32(CopyStrings(v, botID, messageType, payload, g),
                     L.timestamp, now)
    IN  IF Fields(v).hop THEN setByte(m, L.hop_count, 0) ELSE m

\* Whether a strcpy of the send runs past the end of the struct.
Overflows(v, botID, messageType, payload) ==
    /\ v = "espnow"
    /\ LET L == Layout(v)
       IN  \/ L.sender_id + Len(botID) + 1 > L.size
           \/ L.message_type + Len(messageType) + 1 > L.size
           \/ L.payload + Len(payload) + 1 > L.size

\* ------------------------------------------------------------------------
\* Reading the struct
\* ------------------------------------------------------------------------

\* Index of the first zero byte at or after index i, or Len(mem) + 1.
FirstZero(mem, i) ==
    CHOOSE k \in i..(Len(mem) + 1) :
        /\ k = Len(mem) + 1 \/ mem[k] = 0
        /\ \A j \in i..(k - 1) : mem[j] # 0

\* String(ptr): the bytes from off up to the first zero byte. A field with
\* no terminator is read on into the members that follow it.
CStr(mem, off) == SubSeq(mem, off + 1, FirstZero(mem, off + 1) - 1)

\* What the receive callback reads from the incoming bytes.
ReadFrame(v, mem) ==
    LET L == Layout(v)
    IN  [sender_id    |-> CStr(mem, L.sender_id),
         message_type |-> CStr(mem, L.message_type),
         payload      |-> CStr(mem, L.payload)]

\* ------------------------------------------------------------------------
\* SpecFrame: one frame built by a send and read by a receiver
\* ------------------------------------------------------------------------

NoRead == [sender_id |-> <<>>, message_type |-> <<>>, payload |-> <<>>]

\* Values an uninitialised byte is given in the model.
GarbageBytes == {0, 170}

\* Lengths around the boundaries of the sender_id and payload members.
Near(n) == {n + d : d \in (0 - MaxExtra)..MaxExtra}
IdLens  == {14, 23, 23 + MaxExtra}
PayLens == {1} \cup Near(127) \cup {199, 200, 207 + MaxExtra}
Clocks  == {U32(0, 30000), U32(65535, 65535)}

FrameInit ==
    /\ fpc = "input"
    /\ fVariant \in Variants
    /\ fBotID \in {Str(n) : n \in IdLens}
    /\ fType \in MessageTypes
    /\ fPayload \in {Str(n) : n \in PayLens}
    /\ fNow \in Clocks
    /\ fFrame = <<>>
    /\ fResult = "none"
    /\ fOverflow = FALSE
    /\ fRead = NoRead
    /\ LinkIdle /\ MeshIdle /\ NodeIdle /\ EndpointIdle /\ SchedIdle /\ MotionIdle /\ CountIdle

\* The frame part of sendESPNowMessage / sendDirectMessage.
FrameSend ==
    /\ fpc = "input"
    /\ \E g \in GarbageBytes, r \in {"ESP_OK", "ESP_FAIL"} :
        /\ fFrame' = BuildFrame(fVariant, fBotID, fType, fPayload, fNow, g)
        /\ fResult' = r
    /\ fOverflow' = Overflows(fVariant, fBotID, fType, fPayload)
    /\ fpc' = "sent"
    /\ UNCHANGED <<fVariant, fBotID, fType, fPayload, fNow, fRead>>
    /\ UNCHANGED notFrame

\* The receive callback of a node of the same variant reads the frame.
FrameReceive ==
    /\ fpc = "sent"
    /\ fResult = "ESP_OK"
    /\ fRead' = ReadFrame(fVariant, fFrame)
    /\ fpc' = "read"
    /\ UNCHANGED <<fVariant, fBotID, fType, fPayload, fNow, fFrame, fResult,
                   fOverflow>>
    /\ UNCHANGED notFrame

FrameNext == FrameSend \/ FrameReceive

SpecFrame == FrameInit /\ [][FrameNext]_vars

\* ------------------------------------------------------------------------
\* Claims about the frame
\* ------------------------------------------------------------------------

\* Whether the char array of size bytes at off holds a terminator.
Terminated(mem, off, size) == FirstZero(mem, off + 1) <= off + size

\* C1: in every variant and for every sender id, message type and payload,
\* the frame a send hands to the radio has at most 250 bytes.
C1_FrameWithinMTU ==
    fpc # "input" => Len(fFrame) <= ESP_NOW_MAX

\* C3: under the layout with the 12-byte message_type member, the type a
\* receiver reads from a frame equals the type that was passed to the send,
\* for every type of the enumeration.
C3_TypeRoundTrip ==
    (fpc = "read" /\ Fields(fVariant).message_type = 12)
        => fRead.message_type = fType

\* C8: the payload member of the sent frame is a terminated string, equal to
\* the payload passed to the send when that has at most 127 bytes and to its
\* first 127 bytes otherwise.
C8_PayloadTruncatedAt127 ==
    fpc # "input" =>
        LET L == Layout(fVariant)
        IN  /\ Terminated(fFrame, L.payload, Fields(fVariant).payload)
            /\ CStr(fFrame, L.payload) = Take(fPayload, 127)

\* ------------------------------------------------------------------------
\* Peer registry (the radio's peer list) and registration
\* ------------------------------------------------------------------------

\* esp_now_is_peer_exist
Exists(peers, a) == \E i \in 1..Len(peers) : peers[i].addr = a

\* A variant of esp_now_add_peer that makes room for the new peer by
\* dropping the oldest one.
esp_now_add_peer_evicting(peers, a, ch, accept) ==
    IF Exists(peers, a) \/ ~accept
    THEN [peers |-> peers, ok |-> FALSE]
    ELSE [peers |-> (IF peers = <<>> THEN <<>> ELSE Tail(peers))
                        \o <<[addr |-> a, channel |-> ch]>>,
          ok |-> TRUE]

\* esp_now_add_peer: the radio refuses an address it already holds, and may
\* refuse any other (list full, channel not usable): accept is its answer.
esp_now_add_peer(peers, a, ch, accept) ==
    IF Exists(peers, a) \/ ~accept
    THEN [peers |-> peers, ok |-> FALSE]
    ELSE [peers |-> Append(peers, [addr |-> a, channel |-> ch]), ok |-> TRUE]

\* addESPNowPeer of speedie with the channel-0 retry left out.
addESPNowPeer_noRetry(peers, a, cur, r1, r2) ==
    IF Exists(peers, a)
    THEN [addr |-> a, cur |-> cur, before |-> peers, peers |-> peers, attempts |-> <<>>,
          ok |-> TRUE]
    ELSE LET t1 == esp_now_add_peer(peers, a, cur, r1)
         IN  [addr |-> a, cur |-> cur, before |-> peers, peers |-> t1.peers,
              attempts |-> <<[channel |-> cur, ok |-> t1.ok]>>, ok |-> t1.ok]

\* addESPNowPeer of speedie: nothing to do for a known peer; otherwise the
\* current WiFi channel first and channel 0 as the fallback.
addESPNowPeer_speedie(peers, a, cur, r1, r2) ==
    IF Exists(peers, a)
    THEN [addr |-> a, cur |-> cur, before |-> peers, peers |-> peers, attempts |-> <<>>,
          ok |-> TRUE]
    ELSE LET t1 == esp_now_add_peer(peers, a, cur, r1)
             t2 == esp_now_add_peer(peers, a, 0, r2)
         IN  IF t1.ok
             THEN [addr |-> a, cur |-> cur, before |-> peers, peers |-> t1.peers,
                   attempts |-> <<[channel |-> cur, ok |-> TRUE]>>,
                   ok |-> TRUE]
             ELSE [addr |-> a, cur |-> cur, before |-> peers, peers |-> t2.peers,
                   attempts |-> <<[channel |-> cur, ok |-> FALSE],
                                  [channel |-> 0, ok |-> t2.ok]>>,
                   ok |-> t2.ok]

\* addESPNowPeer of generic and wificlient: one esp_now_add_peer on channel
\* 0, whether or not the peer is known.
addESPNowPeer_plain(peers, a, cur, r1, r2) ==
    LET t == esp_now_add_peer(peers, a, 0, r1)
    IN  [addr |-> a, cur |-> cur, before |-> peers, peers |-> t.peers,
         attempts |-> <<[channel |-> 0, ok |-> t.ok]>>, ok |-> t.ok]

addESPNowPeer(v, peers, a, cur, r1, r2) ==
    IF v = "speedie" THEN addESPNowPeer_speedie(peers, a, cur, r1, r2)
    ELSE addESPNowPeer_plain(peers, a, cur, r1, r2)

\* ------------------------------------------------------------------------
\* Sending
\* ------------------------------------------------------------------------

\* esp_now_send: the radio takes a frame only for a peer of its list, and
\* may fail for reasons of its own: rs is its answer.
esp_now_send(peers, dst, rs) ==
    IF ~Exists(peers, dst) THEN "ESP_ERR_ESPNOW_NOT_FOUND"
    ELSE IF rs THEN "ESP_OK" ELSE "ESP_FAIL"

\* esp_wifi_get_channel: 0 while the station is not associated.
WifiChannels == {0, 6}

\* What the environment decides during one addESPNowPeer(a): the WiFi
\* channel and the radio's answers to the esp_now_add_peer calls. Only what
\* the call asks for varies: speedie asks nothing about a peer it knows and
\* makes a second call only after a refusal; the others never ask for the
\* channel, and the radio refuses a known peer whatever else holds.
AddEnv(v, peers, a) ==
    IF v = "speedie"
    THEN IF Exists(peers, a) THEN {[cur |-> 0, r1 |-> TRUE, r2 |-> TRUE]}
         ELSE {e \in [cur : WifiChannels, r1 : BOOLEAN, r2 : BOOLEAN] :
                 e.r1 => e.r2}
    ELSE IF Exists(peers, a) THEN {[cur |-> 0, r1 |-> FALSE, r2 |-> TRUE]}
         ELSE [cur : {0}, r1 : BOOLEAN, r2 : {TRUE}]

\* The value of the bytes of the local struct that no statement of a send
\* writes (speedie clears the struct first).
Garbage(v) == IF v = "speedie" THEN {0} ELSE GarbageBytes

\* What the environment decides during one send to dst: the above for the
\* registration speedie may attempt, and the radio's answer to esp_now_send.
\* g is what the unwritten bytes of the local struct hold.
SendEnv(v, peers, dst, g) ==
    {[cur |-> a.cur, r1 |-> a.r1, r2 |-> a.r2, rs |-> rs, g |-> g] :
        a \in (IF v = "speedie" THEN AddEnv(v, peers, dst)
               ELSE {[cur |-> 0, r1 |-> TRUE, r2 |-> TRUE]}),
        rs \in BOOLEAN}

\* One frame given to esp_now_send and the result.
Handed(peers, dst, bytes, rs) ==
    <<[dst |-> dst, size |-> Len(bytes),
       result |-> esp_now_send(peers, dst, rs)]>>

\* sendESPNowMessage of speedie: register an unknown peer first and give up
\* when it is still unknown after that.
sendESPNowMessage_speedie(peers, botID, dst, type, payload, now, e) ==
    LET known == Exists(peers, dst)
        add   == addESPNowPeer_speedie(peers, dst, e.cur, e.r1, e.r2)
        p1    == IF known THEN peers ELSE add.peers
        bytes == BuildFrame("speedie", botID, type, payload, now, e.g)
    IN  [dst |-> dst, type |-> type, known |-> known,
         adds |-> IF known THEN <<>> ELSE <<add>>,
         peers |-> p1, bytes |-> bytes,
         handed |-> IF Exists(p1, dst) THEN Handed(p1, dst, bytes, e.rs)
                    ELSE <<>>]

\* sendESPNowMessage of generic and wificlient: build the frame and hand it
\* to the radio.
sendESPNowMessage_plain(v, peers, botID, dst, type, payload, now, e) ==
    LET bytes == BuildFrame(v, botID, type, payload, now, e.g)
    IN  [dst |-> dst, type |-> type, known |-> Exists(peers, dst),
         adds |-> <<>>, peers |-> peers, bytes |-> bytes,
         handed |-> Handed(peers, dst, bytes, e.rs)]

sendESPNowMessage(v, peers, botID, dst, type, payload, now, e) ==
    IF v = "speedie"
    THEN sendESPNowMessage_speedie(peers, botID, dst, type, payload, now, e)
    ELSE sendESPNowMessage_plain(v, peers, botID, dst, type, payload, now, e)

\* ------------------------------------------------------------------------
\* SpecLink: two nodes A and B running the same firmware, each built with
\* a table of known peers; X is a third address that never answers and FF
\* is the broadcast address.
\* ------------------------------------------------------------------------

LinkVariants == {"speedie", "generic", "wificlient"}
Nodes == {"A", "B"}
Other(n) == IF n = "A" THEN "B" ELSE "A"
BROADCAST == "FF"

\* botID: the one-letter name of the node.
botID(n) == IF n = "A" THEN <<65>> ELSE <<66>>

\* The tables a node may be built with. A: its partner, a stranger and its
\* partner, or a stranger listed twice. B: its partner.
KnownChoices(n) ==
    IF n = "A" THEN {<<"B">>, <<"X", "B">>, <<"X", "X">>} ELSE {<<"A">>}

\* createStatusPayload / the serialized status document.
statusPayload == Str(62)

\* The addresses setup() registers, in order.
SetupPeers(v, known) ==
    CASE v = "speedie"    -> SelectSeq(known, LAMBDA a : a # BROADCAST)
      [] v = "generic"    -> known
      [] v = "wificlient" -> <<BROADCAST>> \o known

RECURSIVE AddEach(_, _, _)
RECURSIVE SendEach(_, _, _, _, _, _, _, _)

\* The outcomes of a run of addESPNowPeer calls that began with the call a.
AddRest(a, v, as) ==
    {[peers |-> rest.peers, adds |-> <<a>> \o rest.adds] :
        rest \in AddEach(v, a.peers, as)}

\* Every outcome of a run of addESPNowPeer calls for the addresses as.
AddEach(v, peers, as) ==
    IF as = <<>> THEN {[peers |-> peers, adds |-> <<>>]}
    ELSE UNION {
           AddRest(addESPNowPeer(v, peers, Head(as), e.cur, e.r1, e.r2),
                   v, Tail(as)) :
           e \in AddEnv(v, peers, Head(as))}

\* The outcomes of a run of sendESPNowMessage calls that began with the
\* send s.
SendRest(s, v, id, dsts, type, payload, now, g) ==
    {[peers |-> rest.peers, sends |-> <<s>> \o rest.sends] :
        rest \in SendEach(v, s.peers, id, dsts, type, payload, now, g)}

\* Every outcome of a run of sendESPNowMessage calls to the addresses dsts.
\* The local struct of every call of the run sits in the same place, so its
\* unwritten bytes hold the same value g in each.
SendEach(v, peers, id, dsts, type, payload, now, g) ==
    IF dsts = <<>> THEN {[peers |-> peers, sends |-> <<>>]}
    ELSE UNION {
           SendRest(sendESPNowMessage(v, peers, id, Head(dsts), type,
                                      payload, now, e),
                    v, id, Tail(dsts), type, payload, now, g) :
           e \in SendEnv(v, peers, Head(dsts), g)}

\* The addresses sendHeartbeatToAllPeers sends to, in order. wificlient
\* walks the radio's list with esp_now_fetch_peer(true, ..), which restarts
\* from the head of the list at every call.
HeartbeatTargets(v, known, peers) ==
    CASE v = "speedie"    -> SelectSeq(known, LAMBDA a : a # BROADCAST)
      [] v = "generic"    -> known
      [] v = "wificlient" -> [i \in 1..Len(peers) |-> peers[1].addr]

\* The addresses sendStatusToAllPeers sends to (speedie and generic).
StatusTargets(v, known) ==
    IF v = "speedie" THEN SelectSeq(known, LAMBDA a : a # BROADCAST)
    ELSE known

\* The frames of a run of sends that go on the air: those the radio took,
\* one per node that hears the destination address.
RECURSIVE OnAir(_, _)
OnAir(src, sends) ==
    IF sends = <<>> THEN <<>>
    ELSE LET s == Head(sends)
             took == s.handed # <<>> /\ s.handed[1].result = "ESP_OK"
             hears == s.dst = Other(src) \/ s.dst = BROADCAST
         IN  (IF took /\ hears
              THEN <<[src |-> src, dst |-> Other(src),
                      bytes |-> s.bytes, sent |-> s.type]>>
              ELSE <<>>) \o OnAir(src, Tail(sends))

\* Every addESPNowPeer call of a run of sends, in order.
RECURSIVE AddsOf(_)
AddsOf(sends) ==
    IF sends = <<>> THEN <<>> ELSE Head(sends).adds \o AddsOf(Tail(sends))

NoRecv == [from |-> "none", sent |-> <<>>, sender_id |-> <<>>,
           message_type |-> <<>>, payload |-> <<>>, class |-> "none"]

LinkInit ==
    /\ FrameIdle /\ MeshIdle /\ NodeIdle /\ EndpointIdle /\ SchedIdle /\ MotionIdle /\ CountIdle
    /\ lVariant \in LinkVariants
    /\ lKnown \in {k \in [Nodes -> UNION {KnownChoices(n) : n \in Nodes}] :
                     \A n \in Nodes : k[n] \in KnownChoices(n)}
    /\ lpc = [n \in Nodes |-> "boot"]
    /\ lPeers = [n \in Nodes |-> <<>>]
    /\ lNet = <<>>
    /\ lRecv = [n \in Nodes |-> NoRecv]
    /\ lOp = [kind |-> "none", node |-> "none"]
    /\ lAdds = <<>>
    /\ lSends = <<>>
    /\ lTicks = 0

\* setup(): register the table.
setup(n) ==
    /\ lpc[n] = "boot"
    /\ \E r \in AddEach(lVariant, lPeers[n], SetupPeers(lVariant, lKnown[n])) :
         /\ lPeers' = [lPeers EXCEPT ![n] = r.peers]
         /\ lAdds' = r.adds
    /\ lpc' = [lpc EXCEPT ![n] = "loop"]
    /\ lOp' = [kind |-> "setup", node |-> n]
    /\ lSends' = <<>>
    /\ UNCHANGED <<lVariant, lKnown, lNet, lRecv, lTicks>>
    /\ UNCHANGED notLink

\* What is kept of a run of sends: everything but the bytes.
Trace(sends) ==
    [i \in 1..Len(sends) |->
        [dst |-> sends[i].dst, type |-> sends[i].type,
         known |-> sends[i].known, adds |-> sends[i].adds,
         handed |-> sends[i].handed]]

\* What a loop-side run of sends leaves behind.
Sent(n, kind, r) ==
    /\ lPeers' = [lPeers EXCEPT ![n] = r.peers]
    /\ lNet' = lNet \o OnAir(n, r.sends)
    /\ lSends' = Trace(r.sends)
    /\ lAdds' = AddsOf(r.sends)
    /\ lOp' = [kind |-> kind, node |-> n]

\* performBotTasks, heartbeat period elapsed: sendHeartbeatToAllPeers.
sendHeartbeatToAllPeers(n) ==
    /\ lpc[n] = "loop"
    /\ lTicks < MaxTicks
    /\ \E g \in Garbage(lVariant) :
       \E r \in SendEach(lVariant, lPeers[n], botID(n),
                          HeartbeatTargets(lVariant, lKnown[n], lPeers[n]),
                          T_heartbeat, botID(n), U32(0, 30000), g) :
         Sent(n, "heartbeat", r)
    /\ lTicks' = lTicks + 1
    /\ UNCHANGED <<lVariant, lKnown, lpc, lRecv>>
    /\ UNCHANGED notLink

\* performBotTasks, status period elapsed: sendStatusToAllPeers.
sendStatusToAllPeers(n) ==
    /\ lpc[n] = "loop"
    /\ lVariant \in {"speedie", "generic"}
    /\ lTicks < MaxTicks
    /\ \E g \in Garbage(lVariant) :
       \E r \in SendEach(lVariant, lPeers[n], botID(n),
                          StatusTargets(lVariant, lKnown[n]),
                          T_status, statusPayload, U32(0, 15000), g) :
         Sent(n, "status", r)
    /\ lTicks' = lTicks + 1
    /\ UNCHANGED <<lVariant, lKnown, lpc, lRecv>>
    /\ UNCHANGED notLink

\* The branch onESPNowReceive takes on the message type it read.
Classify(v, msgType) ==
    IF v = "wificlient" THEN "report"
    ELSE IF msgType = T_heartbeat THEN "heartbeat"
    ELSE IF msgType = T_status THEN "status"
    ELSE IF endsWith(msgType, S_ack) THEN "ack"
    ELSE "unknown"

\* respondToPeerMessage called for a frame of any class.
respondToPeerMessage_always(v, peers, n, mac, class, g) ==
    SendEach(v, peers, botID(n), <<mac>>,
             IF class = "heartbeat" THEN T_heartbeat_ack ELSE T_status_ack,
             botID(n) \o S_response, U32(0, 30001), g)

\* respondToPeerMessage: the sends of the reply to a frame of that class.
respondToPeerMessage(v, peers, n, mac, class, g) ==
    LET responseType == IF class = "heartbeat" THEN T_heartbeat_ack
                        ELSE T_status_ack
    IN  IF class \in {"heartbeat", "status"}
        THEN SendEach(v, peers, botID(n), <<mac>>, responseType,
                      botID(n) \o S_response, U32(0, 30001), g)
        ELSE {[peers |-> peers, sends |-> <<>>]}

\* onESPNowReceive: the radio delivers the oldest frame for node n.
onESPNowReceive(n) ==
    /\ lNet # <<>>
    /\ Head(lNet).dst = n
    /\ lpc[n] = "loop"
    /\ \E msg \in {ReadFrame(lVariant, Head(lNet).bytes)} :
       \E class \in {Classify(lVariant, msg.message_type)} :
       \E g \in Garbage(lVariant) :
       \E r \in respondToPeerMessage(lVariant, lPeers[n], n, Head(lNet).src,
                                     class, g) :
         /\ lRecv' = [lRecv EXCEPT ![n] =
                        [from |-> Head(lNet).src, sent |-> Head(lNet).sent,
                         sender_id |-> msg.sender_id,
                         message_type |-> msg.message_type,
                         payload |-> msg.payload, class |-> class]]
         /\ lPeers' = [lPeers EXCEPT ![n] = r.peers]
         /\ lNet' = Tail(lNet) \o OnAir(n, r.sends)
         /\ lSends' = Trace(r.sends)
         /\ lAdds' = AddsOf(r.sends)
    /\ lOp' = [kind |-> "receive", node |-> n]
    /\ UNCHANGED <<lVariant, lKnown, lpc, lTicks>>
    /\ UNCHANGED notLink

LinkNext ==
    \E n \in Nodes :
        \/ setup(n)
        \/ sendHeartbeatToAllPeers(n)
        \/ sendStatusToAllPeers(n)
        \/ onESPNowReceive(n)

SpecLink == LinkInit /\ [][LinkNext]_vars

\* ------------------------------------------------------------------------
\* Claims about the link
\* ------------------------------------------------------------------------

\* C2: in the two-node heartbeat scenario the reply B sends to A's heartbeat
\* is read by A with message_type heartbeat_ack (any node that receives a
\* frame sent as heartbeat_ack reads heartbeat_ack as its type).
C2_ReplyReadAsHeartbeatAck ==
    \A n \in Nodes :
        lRecv[n].sent = T_heartbeat_ack
            => lRecv[n].message_type = T_heartbeat_ack

\* C5: the registry never holds an address twice, and an addESPNowPeer for
\* an address that is already registered leaves the registry as it is,
\* succeeds and makes no esp_now_add_peer call.
C5_RegisterIdempotent ==
    /\ \A n \in Nodes : \A i, j \in 1..Len(lPeers[n]) :
           lPeers[n][i].addr = lPeers[n][j].addr => i = j
    /\ \A k \in 1..Len(lAdds) :
           Exists(lAdds[k].before, lAdds[k].addr)
               => /\ lAdds[k].peers = lAdds[k].before
                  /\ lAdds[k].ok
                  /\ lAdds[k].attempts = <<>>

\* C6: a send to an address that is not registered calls addESPNowPeer
\* first and hands no frame to the radio when that fails; no send hands
\* more than one frame to the radio.
C6_SendRegistersFirst ==
    \A k \in 1..Len(lSends) :
        LET s == lSends[k]
        IN  /\ ~s.known => s.adds # <<>>
            /\ (~s.known /\ s.adds # <<>> /\ ~s.adds[1].ok) => s.handed = <<>>
            /\ Len(s.handed) <= 1

\* C7: speedie's addESPNowPeer fails only after two refusals by the radio,
\* the first on the current WiFi channel and the second on channel 0, and
\* then leaves the registry unchanged; when the first attempt is refused and
\* the second accepted the call succeeds and the peer is registered on
\* channel 0.
C7_FailsOnlyAfterTwoRefusals ==
    lVariant = "speedie" =>
        \A k \in 1..Len(lAdds) :
            LET a == lAdds[k]
            IN  /\ ~a.ok =>
                     /\ a.attempts = <<[channel |-> a.cur, ok |-> FALSE],
                                       [channel |-> 0, ok |-> FALSE]>>
                     /\ a.peers = a.before
                /\ (Len(a.attempts) >= 1 /\ ~a.attempts[1].ok
                       /\ ~Exists(a.before, a.addr)) =>
                     /\ Len(a.attempts) = 2
                     /\ a.attempts[2].channel = 0
                     /\ a.attempts[2].ok =>
                          /\ a.ok
                          /\ a.peers = Append(a.before,
                                 [addr |-> a.addr, channel |-> 0])

\* C7 witness: a registration whose first attempt, on channel 6, was refused
\* and whose second attempt was accepted.
C7_Witness ==
    /\ lVariant = "speedie"
    /\ \E k \in 1..Len(lAdds) :
           /\ lAdds[k].cur = 6
           /\ Len(lAdds[k].attempts) = 2
           /\ ~lAdds[k].attempts[1].ok
           /\ lAdds[k].attempts[2].ok

\* ------------------------------------------------------------------------
\* SpecMesh: the receive path of three nodes running the ESP-NOW example.
\* Nothing in the firmware originates an emergency frame; they reach the
\* mesh from a device E outside it, with whatever hop_count that device
\* wrote.
\* ------------------------------------------------------------------------

MeshNodes == {"M1", "M2", "M3"}

\* knownPeers of each node.
MeshKnown(n) ==
    CASE n = "M1" -> <<"M2", "M3">>
      [] n = "M2" -> <<"M3">>
      [] n = "M3" -> <<"M1", "M2">>

\* The hop_count byte and the message type of the frames E sends.
HopInputs == {0, 2, 3, 255}
InjectTypes == {T_emergency, T_heartbeat}

emergencyPayload == Str(20)

\* {"cmd":"restart"} and {"cmd":"ping"}, the command payloads E sends, and
\* the answers of executeCommand.
J_open    == <<123, 34, 99, 109, 100, 34, 58, 34>>
J_close   == <<34, 125>>
S_restart == <<114, 101, 115, 116, 97, 114, 116>>
S_ping    == <<112, 105, 110, 103>>
S_pong    == <<112, 111, 110, 103>>
S_unknown_command ==
    <<117, 110, 107, 110, 111, 119, 110, 95, 99, 111, 109, 109, 97, 110, 100>>
CommandPayloads == {J_open \o S_restart \o J_close, J_open \o S_ping \o J_close}

\* The frames E sends: any type of InjectTypes with any hop_count and the
\* emergency payload, or a command with hop_count 0.
InjectFrames ==
    [type : InjectTypes, payload : {emergencyPayload}, hop : HopInputs]
        \cup [type : {T_command}, payload : CommandPayloads, hop : {0}]

\* doc["cmd"].as<String>() of a payload of the form {"cmd":"..."}; the
\* text null for any other payload.
jsonCmd(payload) ==
    IF /\ Len(payload) >= Len(J_open) + Len(J_close)
       /\ SubSeq(payload, 1, Len(J_open)) = J_open
       /\ endsWith(payload, J_close)
    THEN SubSeq(payload, Len(J_open) + 1, Len(payload) - Len(J_close))
    ELSE <<110, 117, 108, 108>>

\* botID of a node of the mesh.
meshID(n) == <<77>> \o (CASE n = "M1" -> <<49>> [] n = "M2" -> <<50>>
                          [] n = "M3" -> <<51>>)

\* message->hop_count of a frame, and the frame with that member set.
hop_count(bytes) == bytes[Layout("espnow").hop_count + 1]
setHop(bytes, h) == setByte(bytes, Layout("espnow").hop_count, h % 256)

RECURSIVE addKnownPeersEach(_, _, _)
\* addKnownPeers: one esp_now_add_peer on channel 0 per table entry; rs
\* holds the radio's answers.
addKnownPeersEach(peers, as, rs) ==
    IF as = <<>> THEN peers
    ELSE addKnownPeersEach(esp_now_add_peer(peers, Head(as), 0, Head(rs)).peers,
                           Tail(as), Tail(rs))

\* broadcastMessage: total_num sends, each to the peer esp_now_fetch_peer
\* (true, ..) returns, which is the head of the list every time. rs holds
\* the radio's answers.
broadcastMessage(peers, bytes, rs) ==
    [i \in 1..Len(peers) |->
        [dst |-> peers[1].addr, hop |-> hop_count(bytes), bytes |-> bytes,
         result |-> esp_now_send(peers, peers[1].addr, rs[i])]]

\* handleEmergency: relay with hop_count + 1 while hop_count is below 3.
handleEmergency_relayAtThree(peers, bytes, rs) ==
    IF hop_count(bytes) <= 3
    THEN broadcastMessage(peers, setHop(bytes, hop_count(bytes) + 1), rs)
    ELSE <<>>

\* A variant of handleEmergency that relays the frame as it came.
handleEmergency_noIncrement(peers, bytes, rs) ==
    IF hop_count(bytes) < 3
    THEN broadcastMessage(peers, bytes, rs)
    ELSE <<>>

handleEmergency(peers, bytes, rs) ==
    IF hop_count(bytes) < 3
    THEN broadcastMessage(peers, setHop(bytes, hop_count(bytes) + 1), rs)
    ELSE <<>>

\* executeCommand: the answer, and whether ESP.restart() was called. The
\* status command (its answer is a JSON document) is not among the
\* commands E sends.
executeCommand(command) ==
    IF command = S_ping THEN [response |-> S_pong, restart |-> FALSE]
    ELSE IF command = S_restart THEN [response |-> <<>>, restart |-> TRUE]
    ELSE [response |-> S_unknown_command, restart |-> FALSE]

\* sendDirectMessage: one frame with hop_count 0 handed to the radio for
\* the address mac; r is the radio's answer.
sendDirectMessage(peers, id, mac, messageType, payload, r) ==
    LET bytes == BuildFrame("espnow", id, messageType, payload,
                            U32(0, 2000), 0)
    IN  <<[dst |-> mac, hop |-> 0, bytes |-> bytes,
           result |-> esp_now_send(peers, mac, r)]>>

\* handleCommand: run the command of the payload, whoever sent it, and
\* answer the sender; ESP.restart() does not return.
handleCommand(peers, id, mac, payload, r) ==
    LET x == executeCommand(jsonCmd(payload))
    IN  IF x.restart THEN [sends |-> <<>>, restart |-> TRUE]
        ELSE [sends |-> sendDirectMessage(peers, id, mac, T_response,
                                          x.response, r),
              restart |-> FALSE]

\* A variant of handleIncomingMessage that does not relay an emergency
\* that came from one of the node's own peers.
handleIncomingMessage_splitHorizon(peers, id, mac, bytes, messageType, payload, rs) ==
    IF messageType = T_emergency
    THEN [sends |-> IF Exists(peers, mac) THEN <<>>
                    ELSE handleEmergency(peers, bytes, rs),
          restart |-> FALSE]
    ELSE IF messageType = T_command
    THEN handleCommand(peers, id, mac, payload,
                       IF Exists(peers, mac) THEN rs[1] ELSE FALSE)
    ELSE [sends |-> <<>>, restart |-> FALSE]

\* handleIncomingMessage: an emergency frame is relayed, a command is run
\* and answered; heartbeat, sensor_data, response and unknown types are
\* printed.
handleIncomingMessage(peers, id, mac, bytes, messageType, payload, rs) ==
    IF messageType = T_emergency
    THEN [sends |-> handleEmergency(peers, bytes, rs), restart |-> FALSE]
    ELSE IF messageType = T_command
    THEN handleCommand(peers, id, mac, payload,
                       IF Exists(peers, mac) THEN rs[1] ELSE FALSE)
    ELSE [sends |-> <<>>, restart |-> FALSE]

\* The sends the radio took.
Taken(sends) == SelectSeq(sends, LAMBDA s : s.result = "ESP_OK")

\* The frames of those sends that reach a node of the mesh.
MeshOnAir(src, sends) ==
    LET heard == SelectSeq(Taken(sends), LAMBDA s : s.dst \in MeshNodes)
    IN  [i \in 1..Len(heard) |->
            [src |-> src, dst |-> heard[i].dst, bytes |-> heard[i].bytes]]

\* What is kept of a run of sends: everything but the bytes.
MeshTrace(sends) ==
    [i \in 1..Len(sends) |->
        [dst |-> sends[i].dst, hop |-> sends[i].hop,
         result |-> sends[i].result]]

NoLast == [node |-> "none", from |-> "none", known |-> FALSE,
           type |-> <<>>, hop |-> 0, sends |-> <<>>, restart |-> FALSE]

NoStats == [messagesSent |-> 0, messagesReceived |-> 0]

MeshInit ==
    /\ FrameIdle /\ LinkIdle /\ NodeIdle /\ EndpointIdle /\ SchedIdle /\ MotionIdle /\ CountIdle
    /\ mpc = [n \in MeshNodes |-> "boot"]
    /\ mPeers = [n \in MeshNodes |-> <<>>]
    /\ mNet = <<>>
    /\ mStats = [n \in MeshNodes |-> NoStats]
    /\ mLast = NoLast
    /\ mInjected = 0

\* setup(): addKnownPeers.
meshSetup(n) ==
    /\ mpc[n] = "boot"
    /\ \E rs \in [1..Len(MeshKnown(n)) -> BOOLEAN] :
         mPeers' = [mPeers EXCEPT ![n] =
                       addKnownPeersEach(mPeers[n], MeshKnown(n), rs)]
    /\ mpc' = [mpc EXCEPT ![n] = "loop"]
    /\ UNCHANGED <<mNet, mStats, mLast, mInjected>>
    /\ UNCHANGED notMesh

\* The device outside the mesh sends node n a frame.
Inject(n) ==
    /\ mInjected < MaxInject
    /\ \E f \in InjectFrames :
         mNet' = Append(mNet,
                   [src |-> "E", dst |-> n,
                    bytes |-> setHop(BuildFrame("espnow", <<69>>, f.type,
                                                f.payload, U32(0, 1000), 0),
                                     f.hop)])
    /\ mInjected' = mInjected + 1
    /\ UNCHANGED <<mpc, mPeers, mStats, mLast>>
    /\ UNCHANGED notMesh

\* The device outside the mesh originates an emergency: hop_count 0.
originate(n) ==
    /\ mInjected < MaxInject
    /\ mNet' = Append(mNet,
                 [src |-> "E", dst |-> n,
                  bytes |-> BuildFrame("espnow", <<69>>, T_emergency,
                                       emergencyPayload, U32(0, 1000), 0)])
    /\ mInjected' = mInjected + 1
    /\ UNCHANGED <<mpc, mPeers, mStats, mLast>>
    /\ UNCHANGED notMesh

\* onDataReceive: the radio delivers the oldest frame, which is for node
\* n, whether or not the node has its sender as a peer. A restart command
\* takes the node back to its power-on state.
onDataReceive(n) ==
    /\ mNet # <<>>
    /\ Head(mNet).dst = n
    /\ mpc[n] = "loop"
    /\ \E msg \in {ReadFrame("espnow", Head(mNet).bytes)} :
       \E rs \in [1..Len(mPeers[n]) -> BOOLEAN] :
       \E out \in {handleIncomingMessage(mPeers[n], meshID(n), Head(mNet).src,
                                         Head(mNet).bytes, msg.message_type,
                                         msg.payload, rs)} :
         /\ mNet' = Tail(mNet) \o MeshOnAir(n, out.sends)
         /\ mStats' = [mStats EXCEPT ![n] =
                         IF out.restart THEN NoStats
                         ELSE [messagesReceived |-> @.messagesReceived + 1,
                               messagesSent |->
                                 @.messagesSent + Len(Taken(out.sends))]]
         /\ mPeers' = [mPeers EXCEPT ![n] = IF out.restart THEN <<>> ELSE @]
         /\ mpc' = [mpc EXCEPT ![n] = IF out.restart THEN "boot" ELSE @]
         /\ mLast' = [node |-> n, from |-> Head(mNet).src,
                      known |-> Exists(mPeers[n], Head(mNet).src),
                      type |-> msg.message_type,
                      hop |-> hop_count(Head(mNet).bytes),
                      sends |-> MeshTrace(out.sends),
                      restart |-> out.restart]
    /\ UNCHANGED mInjected
    /\ UNCHANGED notMesh

MeshNext ==
    \E n \in MeshNodes :
        \/ meshSetup(n)
        \/ Inject(n)
        \/ onDataReceive(n)

SpecMesh == MeshInit /\ [][MeshNext]_vars

\* The mesh with emergencies originated outside as its only traffic. Every
\* node that is powered runs setup(), and the radio calls the receive
\* callback of a running node for the frame it has for it.
FloodNext ==
    \E n \in MeshNodes :
        \/ meshSetup(n)
        \/ originate(n)
        \/ onDataReceive(n)

FloodFairness ==
    /\ \A n \in MeshNodes : WF_vars(meshSetup(n))
    /\ \A n \in MeshNodes : WF_vars(onDataReceive(n))

SpecFlood == MeshInit /\ [][FloodNext]_vars /\ FloodFairness

\* ------------------------------------------------------------------------
\* Claims about the mesh
\* ------------------------------------------------------------------------

\* C4: a node that receives an emergency frame with hop_count 3 or more
\* transmits nothing; one that receives it with hop_count 2 relays it with
\* hop_count 3 only; and every emergency frame a node of the mesh has put
\* on the air carries a hop_count in 0..3.
C4_NoRelayAtThreeHops ==
    /\ (mLast.type = T_emergency /\ mLast.hop >= 3) => mLast.sends = <<>>
    /\ (mLast.type = T_emergency /\ mLast.hop = 2) =>
           \A k \in 1..Len(mLast.sends) : mLast.sends[k].hop = 3
    /\ \A k \in 1..Len(mNet) :
           (/\ mNet[k].src \in MeshNodes
            /\ CStr(mNet[k].bytes, Layout("espnow").message_type) = T_emergency)
               => hop_count(mNet[k].bytes) \in 0..3

\* C4 witness: a node received, from a node of the mesh, an emergency frame
\* relayed with hop_count 3, and sent nothing.
C4_Witness ==
    /\ mLast.type = T_emergency
    /\ mLast.from \in MeshNodes
    /\ mLast.hop = 3
    /\ mLast.sends = <<>>
    /\ mPeers[mLast.node] # <<>>

\* ------------------------------------------------------------------------
\* SpecNode: one node, its WiFi link and the MCP server endpoint it holds.
\* ------------------------------------------------------------------------

\* The fallback hosts a config.h may hold: none, or the shipped one.
Fallbacks == {"", "192.168.1.130"}

\* What MDNS.queryService may answer: how many servers, and the address and
\* port of the first.
MdnsCounts == {0, 1}
MdnsHosts == {"10.0.0.5"}
MdnsPorts == {8081, 9000}

\* The port discoverMCPServer pairs with the fallback host.
DefaultPort(v) == IF v = "wificlient" THEN 8080 ELSE 8081

\* Where an endpoint assigned by discoverMCPServer came from.
Source(ip, branch) == IF ip = "" THEN "unset" ELSE branch

\* discoverMCPServer with the fallback branch left out.
discoverMCPServer_noFallback(v, fallback, ip, port, begin, n, ip0, port0) ==
    IF begin /\ n # 0
    THEN [ip |-> ip0, port |-> port0, ret |-> TRUE, source |-> "mdns"]
    ELSE [ip |-> ip, port |-> port, ret |-> FALSE,
          source |-> Source(ip, "kept")]

\* discoverMCPServer: the endpoint held after the call, what it returned and
\* where the endpoint came from. begin is MDNS.begin's answer, n the number
\* of services found, ip0 and port0 the first of them.
discoverMCPServer(v, fallback, ip, port, begin, n, ip0, port0) ==
    IF ~begin
    THEN IF v = "generic"
         THEN [ip |-> fallback, port |-> 8081, ret |-> FALSE,
               source |-> Source(fallback, "fallback")]
         ELSE [ip |-> ip, port |-> port, ret |-> FALSE,
               source |-> Source(ip, "kept")]
    ELSE IF n = 0
    THEN IF v = "generic"
         THEN [ip |-> fallback, port |-> 8081, ret |-> FALSE,
               source |-> Source(fallback, "fallback")]
         ELSE IF fallback # ""
         THEN [ip |-> fallback, port |-> DefaultPort(v), ret |-> TRUE,
               source |-> "fallback"]
         ELSE [ip |-> ip, port |-> port, ret |-> FALSE,
               source |-> Source(ip, "kept")]
    ELSE [ip |-> ip0, port |-> port0, ret |-> TRUE, source |-> "mdns"]

\* What mDNS answers during one discoverMCPServer.
MdnsEnv == [begin : BOOLEAN, n : MdnsCounts, ip0 : MdnsHosts, port0 : MdnsPorts]

\* initializeWiFi with the endpoint forgotten after every attempt.
initializeWiFi_alwaysClears(v, ip, port, status, ok) ==
    [ip |-> "", port |-> 0,
     status |-> IF ~ok /\ v # "generic" THEN "wifi_error" ELSE status]

\* initializeWiFi: the endpoint and the status after the connection attempt;
\* speedie and wificlient forget the endpoint and report wifi_error when the
\* attempt fails.
initializeWiFi(v, ip, port, status, ok) ==
    IF ~ok /\ v # "generic"
    THEN [ip |-> "", port |-> 0, status |-> "wifi_error"]
    ELSE [ip |-> ip, port |-> port, status |-> status]

\* initializeESPNow: speedie refuses a struct larger than the link MTU, the
\* others do not look; initOk is esp_now_init's answer.
initializeESPNow(v, initOk) ==
    IF v = "speedie" /\ Layout(v).size > ESP_NOW_MAX THEN "too_large"
    ELSE IF initOk THEN "ready" ELSE "failed"

\* A handler that did not call discoverMCPServer and holds (ip, port).
Skipped(ip, port) ==
    [called |-> FALSE, begin |-> FALSE, n |-> 0, ret |-> FALSE,
     source |-> Source(ip, "kept"), before |-> ip, ip |-> ip, port |-> port]

\* One discoverMCPServer call made while holding host before, with mDNS
\* answers e and result d.
Called(before, e, d) ==
    [called |-> TRUE, begin |-> e.begin, n |-> e.n, ret |-> d.ret,
     source |-> d.source, before |-> before, ip |-> d.ip, port |-> d.port]

\* The outcomes of a handler's `if (cond) discoverMCPServer();` entered
\* holding (ip, port).
CallOrSkip(cond, v, fallback, ip, port) ==
    IF cond
    THEN {Called(ip, e, discoverMCPServer(v, fallback, ip, port,
                                           e.begin, e.n, e.ip0, e.port0)) :
            e \in MdnsEnv}
    ELSE {Skipped(ip, port)}

\* ---- HTTP

mcpStatusEndpoint == "/api/bot/status"
mcpFirmwareEndpoint == "/api/firmware/latest"

Request(method, ip, port, path) ==
    [method |-> method, host |-> ip, port |-> port, path |-> path]

\* The status report posted whatever the connection and the endpoint are.
statusRequests_unguarded(connected, ip, port) ==
    <<Request("POST", ip, port, <<mcpStatusEndpoint>>)>>

\* The requests sendStatusToMCP issues when entered with WiFi status
\* connected and holding (ip, port): none without a connection or a server.
statusRequests(connected, ip, port) ==
    IF ~connected \/ ip = "" THEN <<>>
    ELSE <<Request("POST", ip, port, <<mcpStatusEndpoint>>)>>

\* const float FIRMWARE_VERSION = 1.0, in hundredths.
FIRMWARE_VERSION == 100

\* Versions the server may report, in hundredths; 0 is an answer without one.
Versions == {0, 90, 100, 110}

\* No answer, or one that is not 200 OK.
NoReply == [code |-> 404, version |-> 0, filename |-> ""]

\* What the server answers to GET /api/firmware/latest.
FirmwareReplies ==
    {NoReply}
        \cup [code : {200}, version : Versions, filename : {"fw.bin"}]

\* checkForFirmwareUpdate: the requests issued and the URLs handed to
\* httpUpdate.update. generic only logs that an update is available.
firmwareCheck(v, connected, ip, port, reply) ==
    IF ~connected \/ ip = ""
    THEN [requests |-> <<>>, update |-> <<>>]
    ELSE [requests |-> <<Request("GET", ip, port, <<mcpFirmwareEndpoint>>)>>,
          update |->
            IF reply.code = 200 /\ reply.version > FIRMWARE_VERSION
                /\ v # "generic"
            THEN <<Request("GET", ip, port, <<"/firmware/", reply.filename>>)>>
            ELSE <<>>]

\* ---- the status snapshot

\* Globals before setup() has run.
BootStatus == [status |-> "", batteryLevel |-> 0]

Max(a, b) == IF a > b THEN a ELSE b

\* performBotTasks with the low-battery mark set only on an active node.
performBotTasks_onlyFromActive(v, bs, due) ==
    IF v = "generic"
    THEN [bs EXCEPT !.batteryLevel = IF due THEN Max(800, @ - 1) ELSE @]
    ELSE LET level == IF due THEN Max(0, bs.batteryLevel - 1)
                      ELSE bs.batteryLevel
         IN  [status |-> IF level < 200 /\ bs.status = "active"
                         THEN "low_battery" ELSE bs.status,
              batteryLevel |-> level]

\* What one loop() iteration does to the snapshot; due says whether the
\* battery timer has elapsed. speedie and wificlient: performBotTasks drains
\* 0.1 and marks low_battery below 20. generic: readSensors drains 0.1 down
\* to 80 and no status follows from the level.
performBotTasks(v, bs, due) ==
    IF v = "generic"
    THEN [bs EXCEPT !.batteryLevel = IF due THEN Max(800, @ - 1) ELSE @]
    ELSE LET level == IF due THEN Max(0, bs.batteryLevel - 1)
                      ELSE bs.batteryLevel
         IN  [status |-> IF level < 200 /\ bs.status # "low_battery"
                         THEN "low_battery" ELSE bs.status,
              batteryLevel |-> level]

\* k >= 1 loop() iterations in a row in which the battery timer elapsed:
\* the level drains k - 1 times down to its floor and the last iteration
\* drains once more and marks the status, which is where the marks of the
\* iterations before it would have left it, the level never rising.
Iterate(v, bs, k) ==
    LET floor == IF v = "generic" THEN 800 ELSE 0
    IN  performBotTasks(v,
            [bs EXCEPT !.batteryLevel = Max(floor, @ - (k - 1))], TRUE)

\* ---- the handlers

NoCall == [kind |-> "none", held |-> "", called |-> FALSE, begin |-> FALSE, n |-> 0,
           ret |-> FALSE, source |-> "unset", before |-> "",
           wifi |-> FALSE, requests |-> <<>>, reply |-> NoReply,
           update |-> <<>>, espnow |-> "none"]

\* The record of a handler: which one, the host held when it was entered,
\* its discoverMCPServer call c if any,
\* the WiFi status it left, the HTTP requests it issued, the answer to its
\* firmware query, the update it started and what initializeESPNow came to.
Ran(kind, held, c, wifi, requests, reply, update, espnow) ==
    [kind |-> kind, held |-> held, called |-> c.called, begin |-> c.begin, n |-> c.n,
     ret |-> c.ret, source |-> c.source, before |-> c.before,
     wifi |-> wifi, requests |-> requests, reply |-> reply,
     update |-> update, espnow |-> espnow]

\* A handler returns holding the endpoint of c and the snapshot bs.
Finish(kind, c, wifi, bs, requests, reply, update, espnow) ==
    /\ mcpServerIP' = c.ip
    /\ mcpServerPort' = c.port
    /\ nWifi' = wifi
    /\ botStatus' = bs
    /\ nLast' = Ran(kind, mcpServerIP, c, wifi, requests, reply, update,
                    espnow)

\* BOT_CUSTOM_NAME as the config.h files ship it, Speedie_Bot(2), and left
\* empty.
Names == {<<>>, <<83, 112, 101, 101, 100, 105, 101, 95, 66, 111, 116, 40, 50, 41>>}

\* Hardware addresses, as the bytes of the 64-bit value ESP.getEfuseMac()
\* returns: the top two bytes are always zero, the third may be small.
Macs == {<<0, 0, 10, 196, 18, 52, 86, 120>>, <<0, 0, 164, 207, 18, 5, 131, 36>>}

\* The text ESP32_Bot_.
ESP32_Bot_ == <<69, 83, 80, 51, 50, 95, 66, 111, 116, 95>>

\* The sixteen hexadecimal digits of a 64-bit value, most significant first.
RECURSIVE Nibbles(_)
Nibbles(bytes) ==
    IF bytes = <<>> THEN <<>>
    ELSE <<Head(bytes) \div 16, Head(bytes) % 16>> \o Nibbles(Tail(bytes))

\* String(value, HEX): lower-case digits, no leading zeros, 0 for zero.
RECURSIVE StripZeros(_)
StripZeros(ds) ==
    IF Len(ds) > 1 /\ Head(ds) = 0 THEN StripZeros(Tail(ds)) ELSE ds

HexDigit(d) == IF d < 10 THEN 48 + d ELSE 87 + d

HexString(bytes) ==
    LET ds == StripZeros(Nibbles(bytes))
    IN  [i \in 1..Len(ds) |-> HexDigit(ds[i])]

\* A variant of resolve that ignores the configured name.
resolve_alwaysDerived(name, mac) == ESP32_Bot_ \o HexString(mac)

\* The id setup() gives the node: BOT_CUSTOM_NAME when strlen finds it
\* non-empty, otherwise ESP32_Bot_ followed by the address in hexadecimal.
resolve(name, mac) ==
    IF Len(name) > 0 THEN name ELSE ESP32_Bot_ \o HexString(mac)

NodeInit ==
    /\ FrameIdle /\ LinkIdle /\ MeshIdle /\ EndpointIdle /\ SchedIdle /\ MotionIdle /\ CountIdle
    /\ nVariant \in LinkVariants
    /\ nFallback \in Fallbacks
    /\ nName \in Names
    /\ nMac \in Macs
    /\ nBotID = <<>>
    /\ npc = "boot"
    /\ nWifi = FALSE
    /\ mcpServerIP = ""
    /\ mcpServerPort = 0
    /\ botStatus = BootStatus
    /\ nLast = NoCall

\* setup(): status starting, battery 100, initializeWiFi, initializeESPNow,
\* then discoverMCPServer: always in generic (which ends with its first
\* sendStatusToMCP), only when connected in the others; status active.
nodeSetup ==
    /\ npc = "boot"
    /\ npc' = "loop"
    /\ \E ok \in BOOLEAN, initOk \in BOOLEAN :
       \E w \in {initializeWiFi(nVariant, mcpServerIP, mcpServerPort,
                                "starting", ok)} :
       \E c \in CallOrSkip(ok \/ nVariant = "generic", nVariant, nFallback,
                           w.ip, w.port) :
         Finish("setup", c, ok,
                [status |-> "active", batteryLevel |-> 1000],
                IF nVariant = "generic"
                THEN statusRequests(ok, c.ip, c.port) ELSE <<>>,
                NoReply, <<>>, initializeESPNow(nVariant, initOk))
    /\ nBotID' = resolve(nName, nMac)
    /\ UNCHANGED <<nVariant, nFallback, nName, nMac>>
    /\ UNCHANGED notNode

\* A loop() iteration that finds WiFi disconnected (speedie, wificlient):
\* initializeWiFi and, when that connects and no server is held,
\* discoverMCPServer; then performBotTasks.
reconnect ==
    /\ npc = "loop"
    /\ nVariant # "generic"
    /\ ~nWifi
    /\ \E ok \in BOOLEAN :
       \E w \in {initializeWiFi(nVariant, mcpServerIP, mcpServerPort,
                                botStatus.status, ok)} :
       \E c \in CallOrSkip(ok /\ w.ip = "", nVariant, nFallback,
                           w.ip, w.port) :
         Finish("reconnect", c, ok,
                performBotTasks(nVariant,
                                [botStatus EXCEPT !.status = w.status], FALSE),
                <<>>, NoReply, <<>>, "none")
    /\ UNCHANGED <<nVariant, nFallback, nName, nMac, nBotID, npc>>
    /\ UNCHANGED notNode

\* A loop() iteration in which the status period has elapsed:
\* sendStatusToMCP, then performBotTasks. Without a connection or a server
\* nothing is posted; speedie and wificlient then look for the server when
\* they hold none, and return.
sendStatusToMCP ==
    /\ npc = "loop"
    /\ \E c \in CallOrSkip(mcpServerIP = "" /\ nVariant # "generic",
                           nVariant, nFallback, mcpServerIP, mcpServerPort) :
         Finish("status", c, nWifi,
                performBotTasks(nVariant, botStatus, FALSE),
                statusRequests(nWifi, mcpServerIP, mcpServerPort),
                NoReply, <<>>, "none")
    /\ UNCHANGED <<nVariant, nFallback, nName, nMac, nBotID, npc>>
    /\ UNCHANGED notNode

\* A loop() iteration in which the firmware period has elapsed:
\* checkForFirmwareUpdate, then performBotTasks. An update that succeeds
\* restarts the node.
checkForFirmwareUpdate ==
    /\ npc = "loop"
    /\ \E reply \in IF nWifi /\ mcpServerIP # "" THEN FirmwareReplies
                    ELSE {NoReply} :
       \E f \in {firmwareCheck(nVariant, nWifi, mcpServerIP, mcpServerPort,
                               reply)} :
       \E updated \in IF f.update = <<>> THEN {FALSE} ELSE BOOLEAN :
         IF updated
         THEN /\ npc' = "boot"
              /\ nBotID' = <<>>
              /\ Finish("firmware", Skipped("", 0), FALSE, BootStatus,
                        f.requests, reply, f.update, "none")
         ELSE /\ npc' = npc
              /\ nBotID' = nBotID
              /\ Finish("firmware", Skipped(mcpServerIP, mcpServerPort),
                        nWifi, performBotTasks(nVariant, botStatus, FALSE),
                        f.requests, reply, f.update, "none")
    /\ UNCHANGED <<nVariant, nFallback, nName, nMac>>
    /\ UNCHANGED notNode

\* IdleRun loop() iterations in which nothing but the battery timer elapses.
idle ==
    /\ npc = "loop"
    /\ Finish("idle", Skipped(mcpServerIP, mcpServerPort), nWifi,
              Iterate(nVariant, botStatus, IdleRun), <<>>, NoReply, <<>>,
              "none")
    /\ UNCHANGED <<nVariant, nFallback, nName, nMac, nBotID, npc>>
    /\ UNCHANGED notNode

mcpESPNowEndpoint == "/api/esp-now/message"

\* The requests sendESPNowActivity issues when entered with WiFi status
\* connected and holding (ip, port): one POST, or none without a connection
\* or a server.
sendESPNowActivity(connected, ip, port) ==
    IF ~connected \/ ip = "" THEN <<>>
    ELSE <<Request("POST", ip, port, <<mcpESPNowEndpoint>>)>>

\* The radio calls onESPNowReceive for a frame, in its own task and at any
\* point of loop(). The callback reports the frame to the server with
\* sendESPNowActivity before it returns; generic, when it answers a
\* heartbeat or a status, reports the answer first (respondToPeerMessage).
nodeOnESPNowReceive ==
    /\ npc = "loop"
    /\ \E answered \in (IF nVariant = "generic" THEN BOOLEAN ELSE {FALSE}) :
         Finish("receive", Skipped(mcpServerIP, mcpServerPort), nWifi,
                botStatus,
                (IF answered
                 THEN sendESPNowActivity(nWifi, mcpServerIP, mcpServerPort)
                 ELSE <<>>)
                    \o sendESPNowActivity(nWifi, mcpServerIP, mcpServerPort),
                NoReply, <<>>, "none")
    /\ UNCHANGED <<nVariant, nFallback, nName, nMac, nBotID, npc>>
    /\ UNCHANGED notNode

\* The access point goes away, or the WiFi driver reconnects by itself.
wifiChange ==
    /\ npc = "loop"
    /\ nWifi' = ~nWifi
    /\ UNCHANGED <<nVariant, nFallback, nName, nMac, nBotID, npc,
                   mcpServerIP, mcpServerPort, botStatus, nLast>>
    /\ UNCHANGED notNode

NodeNext ==
    \/ nodeSetup
    \/ reconnect
    \/ sendStatusToMCP
    \/ checkForFirmwareUpdate
    \/ idle
    \/ nodeOnESPNowReceive
    \/ wifiChange

SpecNode == NodeInit /\ [][NodeNext]_vars

\* ------------------------------------------------------------------------
\* The endpoint under the loop task and the radio callbacks (bot_wifi_client)
\*
\* loop() runs in the Arduino task; onESPNowReceive and onESPNowSend run in
\* the WiFi task, at any point of loop(). Both read mcpServerIP and
\* mcpServerPort, which the loop task assigns one after the other, with no
\* lock and no critical section.
\* ------------------------------------------------------------------------

Unset == <<"", 0>>
NoRequest == [built |-> FALSE, host |-> "", port |-> 0]

\* What a read of a String returns while another task is assigning it.
Torn == "torn"

EndpointInit ==
    /\ FrameIdle /\ LinkIdle /\ MeshIdle /\ NodeIdle /\ SchedIdle /\ MotionIdle /\ CountIdle
    /\ eFallback \in Fallbacks
    /\ eWifi \in BOOLEAN
    /\ eServerIP = ""
    /\ eServerPort = 0
    /\ epc = "idle"
    /\ ePending = Unset
    /\ eAssigned = {}
    /\ cpc = "idle"
    /\ cHost = ""
    /\ cPort = 0
    /\ eReq = NoRequest

\* discoverMCPServer, called by the loop task while it holds no host: the
\* branch that finds a server or uses the fallback begins to assign
\* mcpServerIP.
discoverMCPServer_begin ==
    /\ epc = "idle"
    /\ eServerIP = ""
    /\ \E e \in MdnsEnv :
       \E d \in {discoverMCPServer("wificlient", eFallback, eServerIP,
                                   eServerPort, e.begin, e.n, e.ip0, e.port0)} :
         /\ d.ret
         /\ ePending' = <<d.ip, d.port>>
         /\ eAssigned' = eAssigned \cup {<<d.ip, d.port>>}
    /\ epc' = "ip_writing"
    /\ UNCHANGED <<eFallback, eWifi, eServerIP, eServerPort, cpc, cHost, cPort,
                   eReq>>
    /\ UNCHANGED notEndpoint

\* mcpServerIP = ...: the String holds the new host.
discoverMCPServer_ip ==
    /\ epc = "ip_writing"
    /\ eServerIP' = ePending[1]
    /\ epc' = "ip_written"
    /\ UNCHANGED <<eFallback, eWifi, eServerPort, ePending, eAssigned, cpc,
                   cHost, cPort, eReq>>
    /\ UNCHANGED notEndpoint

\* mcpServerPort = ...
discoverMCPServer_port ==
    /\ epc = "ip_written"
    /\ eServerPort' = ePending[2]
    /\ epc' = "idle"
    /\ UNCHANGED <<eFallback, eWifi, eServerIP, ePending, eAssigned, cpc,
                   cHost, cPort, eReq>>
    /\ UNCHANGED notEndpoint

\* initializeWiFi has failed: mcpServerIP = "".
initializeWiFi_ip ==
    /\ epc = "idle"
    /\ ~eWifi
    /\ eServerIP # ""
    /\ eServerIP' = ""
    /\ ePending' = Unset
    /\ epc' = "ip_cleared"
    /\ UNCHANGED <<eFallback, eWifi, eServerPort, eAssigned, cpc, cHost, cPort,
                   eReq>>
    /\ UNCHANGED notEndpoint

\* mcpServerPort = 0.
initializeWiFi_port ==
    /\ epc = "ip_cleared"
    /\ eServerPort' = 0
    /\ epc' = "idle"
    /\ UNCHANGED <<eFallback, eWifi, eServerIP, ePending, eAssigned, cpc,
                   cHost, cPort, eReq>>
    /\ UNCHANGED notEndpoint

\* The host a read of mcpServerIP returns.
HostRead == IF epc = "ip_writing" THEN {eServerIP, ePending[1], Torn}
            ELSE {eServerIP}

\* sendESPNowActivity in a callback: the guard lets it pass.
sendESPNowActivity_guard ==
    /\ cpc = "idle"
    /\ eWifi
    /\ \E h \in HostRead : h # ""
    /\ cpc' = "guarded"
    /\ UNCHANGED <<eFallback, eWifi, eServerIP, eServerPort, epc, ePending,
                   eAssigned, cHost, cPort, eReq>>
    /\ UNCHANGED notEndpoint

\* The url is built: String(mcpServerIP) and String(mcpServerPort) are
\* evaluated, in the order the compiler chose.
sendESPNowActivity_host ==
    /\ cpc \in {"guarded", "port_read"}
    /\ \E h \in HostRead : cHost' = h
    /\ cpc' = IF cpc = "guarded" THEN "host_read" ELSE "both_read"
    /\ UNCHANGED <<eFallback, eWifi, eServerIP, eServerPort, epc, ePending,
                   eAssigned, cPort, eReq>>
    /\ UNCHANGED notEndpoint

sendESPNowActivity_port ==
    /\ cpc \in {"guarded", "host_read"}
    /\ cPort' = eServerPort
    /\ cpc' = IF cpc = "guarded" THEN "port_read" ELSE "both_read"
    /\ UNCHANGED <<eFallback, eWifi, eServerIP, eServerPort, epc, ePending,
                   eAssigned, cHost, eReq>>
    /\ UNCHANGED notEndpoint

\* http.begin(url); http.POST(...).
sendESPNowActivity_post ==
    /\ cpc = "both_read"
    /\ eReq' = [built |-> TRUE, host |-> cHost, port |-> cPort]
    /\ cpc' = "idle"
    /\ UNCHANGED <<eFallback, eWifi, eServerIP, eServerPort, epc, ePending,
                   eAssigned, cHost, cPort>>
    /\ UNCHANGED notEndpoint

\* The access point goes away or comes back.
endpointWifiChange ==
    /\ eWifi' = ~eWifi
    /\ UNCHANGED <<eFallback, eServerIP, eServerPort, epc, ePending, eAssigned,
                   cpc, cHost, cPort, eReq>>
    /\ UNCHANGED notEndpoint

EndpointNext ==
    \/ discoverMCPServer_begin
    \/ discoverMCPServer_ip
    \/ discoverMCPServer_port
    \/ initializeWiFi_ip
    \/ initializeWiFi_port
    \/ sendESPNowActivity_guard
    \/ sendESPNowActivity_host
    \/ sendESPNowActivity_port
    \/ sendESPNowActivity_post
    \/ endpointWifiChange

SpecEndpoint == EndpointInit /\ [][EndpointNext]_vars

\* ------------------------------------------------------------------------
\* The millisecond clock, the bounded WiFi association and the timer of
\* loop() that paces the status report (bot_wifi_client, generic) or the
\* heartbeat (ESP-NOW example)
\* ------------------------------------------------------------------------

SchedVariants == {"wificlient", "generic", "espnow"}

\* unsigned long arithmetic, 32 bits wide, on [hi, lo] halves of 16 bits.
Add32(a, d) ==
    U32(a.hi + (d \div 65536) + ((a.lo + (d % 65536)) \div 65536),
        a.lo + (d % 65536))

Sub32(a, b) ==
    IF a.lo >= b.lo THEN U32(a.hi - b.hi + 65536, a.lo - b.lo)
    ELSE U32(a.hi - b.hi - 1 + 65536, a.lo - b.lo + 65536)

Geq32(a, n) ==
    \/ a.hi > n \div 65536
    \/ a.hi = n \div 65536 /\ a.lo >= n % 65536

\* statusUpdateInterval; the heartbeat period of the ESP-NOW example.
Interval(v) == IF v = "espnow" THEN 30000 ELSE 10000

\* delay(...) at the end of loop().
LoopDelay(v) == IF v = "generic" THEN 100 ELSE 1000

\* Time the tasks of one loop() iteration may take besides the delay (radio
\* sends, an HTTP request that is answered or times out).
WorkTimes == {0, 5000}

\* The timer test with "now" below "last" taken for "not yet".
Due_noWrap(v, now, last) ==
    /\ \/ now.hi > last.hi
       \/ now.hi = last.hi /\ now.lo >= last.lo
    /\ IF v = "espnow"
       THEN Geq32(Sub32(now, last), Interval(v) + 1)
       ELSE Geq32(Sub32(now, last), Interval(v))

\* The timer test of loop(): currentTime - last >= interval, with > in the
\* ESP-NOW example.
Due(v, now, last) ==
    IF v = "espnow"
    THEN Geq32(Sub32(now, last), Interval(v) + 1)
    ELSE Geq32(Sub32(now, last), Interval(v))

\* What the test would be on a clock that never wraps.
Elapsed(v, ms) == IF v = "espnow" THEN ms > Interval(v) ELSE ms >= Interval(v)

\* The polls of initializeWiFi after which the association may be found
\* complete: the first, one half way, the last.
ConnectPolls == {1, 10, 20}

NoTest ==
    [due |-> FALSE, elapsed |-> 0, gap |-> -1, outcome |-> "none",
     wrapped |-> FALSE, crossed |-> FALSE]

\* The clock has wrapped between the two samples.
Wrapped(now, last) ==
    \/ now.hi < last.hi
    \/ now.hi = last.hi /\ now.lo < last.lo

\* A node at power-on, or one that has been running for 49 days and whose
\* clock is about to wrap, a little after its timer fired.
SchedInit ==
    /\ FrameIdle /\ LinkIdle /\ MeshIdle /\ NodeIdle /\ EndpointIdle /\ MotionIdle /\ CountIdle
    /\ sVariant \in SchedVariants
    /\ \/ /\ sMillis = U32(0, 0)
          /\ sLast = U32(0, 0)
          /\ sElapsed = 0
          /\ sSince = -1
          /\ sWifi = FALSE
          /\ spc = IF sVariant = "espnow" THEN "top" ELSE "setup_wifi"
       \/ /\ sMillis = U32(65535, 65536 - 6000)
          /\ sLast = U32(65535, 65536 - 8000)
          /\ sElapsed = 2000
          /\ sSince = 2000
          /\ sWifi = TRUE
          /\ spc = "top"
    /\ sAttempts = 0
    /\ currentTime = U32(0, 0)
    /\ sAtSample = 0
    /\ sLoops = 0
    /\ sFired = NoTest
   
    /\ sReport = "none"

\* The while condition of initializeWiFi without its bound on attempts.
pollAgain_unbounded(connected, attempts) == ~connected

\* The while condition of initializeWiFi.
pollAgain(connected, attempts) == ~connected /\ attempts < 20

\* Time passes.
Pass(dt) ==
    /\ sMillis' = Add32(sMillis, dt)
    /\ sSince' = IF sSince < 0 THEN sSince ELSE sSince + dt

\* initializeWiFi, one turn of its while loop: delay(500), attempts++. The
\* interface may connect meanwhile; once connected it stays so.
initializeWiFi_poll ==
    /\ spc \in {"setup_wifi", "loop_wifi"}
    /\ pollAgain(sWifi, sAttempts)
    /\ Pass(500)
    /\ sElapsed' = sElapsed + 500
    /\ sAttempts' = sAttempts + 1
    /\ sWifi' \in IF sAttempts + 1 \in ConnectPolls THEN BOOLEAN ELSE {FALSE}
    /\ UNCHANGED <<sVariant, spc, currentTime, sLast, sAtSample, sLoops, sFired,
                   sReport>>
    /\ UNCHANGED notSched

\* initializeWiFi leaves its while loop, reports the connection or the
\* failure and returns.
initializeWiFi_return ==
    /\ spc \in {"setup_wifi", "loop_wifi"}
    /\ ~pollAgain(sWifi, sAttempts)
    /\ spc' = IF spc = "setup_wifi" THEN "top" ELSE "tasks"
    /\ sReport' = IF sWifi THEN "connected" ELSE "failed"
    /\ UNCHANGED <<sVariant, sMillis, sWifi, sAttempts, currentTime, sLast,
                   sElapsed, sAtSample, sSince, sLoops, sFired>>
    /\ UNCHANGED notSched

\* loop() begins: currentTime = millis(); bot_wifi_client calls
\* initializeWiFi when the interface is down.
loopBegin ==
    /\ spc = "top"
    /\ sLoops < MaxLoops
    /\ currentTime' = sMillis
    /\ sAtSample' = sElapsed
    /\ IF sVariant = "wificlient" /\ ~sWifi
       THEN spc' = "loop_wifi" /\ sAttempts' = 0 /\ sReport' = "none"
       ELSE spc' = "tasks" /\ sAttempts' = sAttempts /\ sReport' = sReport
    /\ UNCHANGED <<sVariant, sMillis, sWifi, sLast, sElapsed, sSince, sLoops,
                   sFired>>
    /\ UNCHANGED notSched

\* The timer test, the timed task when it is due, the rest of loop() and
\* the delay at its end.
loopTasks ==
    /\ spc = "tasks"
    /\ \E work \in WorkTimes, outcome \in {"sent", "failed", "skipped"} :
       \E dt \in {work + LoopDelay(sVariant)} :
         IF Due(sVariant, currentTime, sLast)
         THEN /\ sLast' = currentTime
              /\ sFired' = [due |-> TRUE, elapsed |-> sAtSample,
                            gap |-> sSince, outcome |-> outcome,
                            wrapped |-> Wrapped(currentTime, sLast),
                            crossed |-> sFired.crossed
                                          \/ Wrapped(currentTime, sLast)]
              /\ sElapsed' = sElapsed - sAtSample + dt
              /\ sMillis' = Add32(sMillis, dt)
              /\ sSince' = dt
         ELSE /\ sLast' = sLast
              /\ sFired' = [due |-> FALSE, elapsed |-> sAtSample,
                            gap |-> -1, outcome |-> "none",
                            wrapped |-> Wrapped(currentTime, sLast),
                            crossed |-> sFired.crossed]
              /\ sElapsed' = sElapsed + dt
              /\ Pass(dt)
    /\ spc' = "top"
    /\ sLoops' = sLoops + 1
    /\ UNCHANGED <<sVariant, sWifi, sAttempts, currentTime, sAtSample,
                   sReport>>
    /\ UNCHANGED notSched

SchedNext ==
    \/ initializeWiFi_poll
    \/ initializeWiFi_return
    \/ loopBegin
    \/ loopTasks

SpecSched == SchedInit /\ [][SchedNext]_vars

\* The Arduino task is never starved: a step of initializeWiFi that can be
\* taken is taken.
SchedFairness ==
    /\ WF_vars(initializeWiFi_poll)
    /\ WF_vars(initializeWiFi_return)

SpecSchedFair == SpecSched /\ SchedFairness

\* ------------------------------------------------------------------------
\* The motion alert of wheelie: loop() calls
\* testRGBWithBuzzerMotionSoundAndToF, which begins with checkMotionSensor
\* ------------------------------------------------------------------------

\* Quiet time after which the alert mode is left, in milliseconds.
MotionExit == 5000

\* The delays of the red flashes on detection; delay(100) at the end of
\* loop().
FlashDelay == 500 + 200 + 500
WheelieDelay == 100

\* millis() - lastMotionTime after dt more milliseconds; every value past
\* the exit time behaves as the first one does.
Aged(age, dt) ==
    IF age + dt > MotionExit THEN MotionExit + WheelieDelay ELSE age + dt

\* checkMotionSensor with the pin reading currentMotion: the flags it
\* leaves, the age of lastMotionTime when it returns.
checkMotionSensor(currentMotion, detected, mode, age) ==
    IF currentMotion /\ ~detected
    THEN [detected |-> TRUE, mode |-> TRUE, age |-> FlashDelay]
    ELSE IF ~currentMotion /\ detected
    THEN [detected |-> FALSE,
          mode |-> IF age > MotionExit THEN FALSE ELSE mode,
          age |-> age]
    ELSE [detected |-> detected, mode |-> mode, age |-> age]

MotionInit ==
    /\ FrameIdle /\ LinkIdle /\ MeshIdle /\ NodeIdle /\ EndpointIdle /\ CountIdle
    /\ SchedIdle
    /\ mPin = FALSE
    /\ motionDetected = FALSE
    /\ isMotionMode = FALSE
    /\ mAge = 0

\* One loop() iteration: checkMotionSensor, the lights, delay(100).
wheelieLoop ==
    /\ \E r \in {checkMotionSensor(mPin, motionDetected, isMotionMode, mAge)} :
         /\ motionDetected' = r.detected
         /\ isMotionMode' = r.mode
         /\ mAge' = Aged(r.age, WheelieDelay)
    /\ UNCHANGED mPin
    /\ UNCHANGED notMotion

\* Something starts or stops moving in front of the sensor.
motionChange ==
    /\ mPin' = ~mPin
    /\ UNCHANGED <<motionDetected, isMotionMode, mAge>>
    /\ UNCHANGED notMotion

MotionNext ==
    \/ wheelieLoop
    \/ motionChange

\* loop() is called again and again.
MotionFairness == WF_vars(wheelieLoop)

SpecMotion == MotionInit /\ [][MotionNext]_vars /\ MotionFairness

\* ------------------------------------------------------------------------
\* The counters of the ESP-NOW example. loop() (sendHeartbeat,
\* broadcastSensorData, the serial commands) sends from the Arduino task;
\* onDataReceive answers commands and relays emergencies from the WiFi
\* task, on the other core. networkStats.messagesSent++ on a plain int is a
\* load, an addition and a store, and nothing orders the two tasks.
\* ------------------------------------------------------------------------

CountInit ==
    /\ FrameIdle /\ LinkIdle /\ MeshIdle /\ NodeIdle /\ EndpointIdle
    /\ SchedIdle /\ MotionIdle
    /\ messagesSent = 0
    /\ messagesReceived = 0
    /\ tpc = "idle"
    /\ tReg = 0
    /\ rpc = "idle"
    /\ rReg = 0
    /\ okSends = 0
    /\ framesIn = 0
    /\ loopSends = 0

\* broadcastMessage or sendDirectMessage in the loop task: esp_now_send,
\* and on ESP_OK the increment begins.
loopSend ==
    /\ tpc = "idle"
    /\ loopSends < MaxSends
    /\ loopSends' = loopSends + 1
    /\ \E ok \in BOOLEAN :
         /\ okSends' = IF ok THEN okSends + 1 ELSE okSends
         /\ tpc' = IF ok THEN "load" ELSE "idle"
    /\ UNCHANGED <<messagesSent, messagesReceived, tReg, rpc, rReg, framesIn>>
    /\ UNCHANGED notCount

\* messagesSent++ in the loop task: the load.
loopLoad ==
    /\ tpc = "load"
    /\ tReg' = messagesSent
    /\ tpc' = "store"
    /\ UNCHANGED <<messagesSent, messagesReceived, rpc, rReg, okSends, framesIn,
                   loopSends>>
    /\ UNCHANGED notCount

\* messagesSent++ in the loop task: the store.
loopStore ==
    /\ tpc = "store"
    /\ messagesSent' = tReg + 1
    /\ tpc' = "idle"
    /\ UNCHANGED <<messagesReceived, tReg, rpc, rReg, okSends, framesIn,
                   loopSends>>
    /\ UNCHANGED notCount

\* onDataReceive begins: messagesReceived++, which only this task writes;
\* a command or an emergency below the hop limit is then answered or
\* relayed, anything else is only printed.
callbackReceive ==
    /\ rpc = "idle"
    /\ framesIn < MaxSends
    /\ framesIn' = framesIn + 1
    /\ messagesReceived' = messagesReceived + 1
    /\ \E sends \in BOOLEAN : rpc' = IF sends THEN "send" ELSE "idle"
    /\ UNCHANGED <<messagesSent, tpc, tReg, rReg, okSends, loopSends>>
    /\ UNCHANGED notCount

\* sendDirectMessage or broadcastMessage in the callback: esp_now_send, and
\* on ESP_OK the increment begins.
callbackSend ==
    /\ rpc = "send"
    /\ \E ok \in BOOLEAN :
         /\ okSends' = IF ok THEN okSends + 1 ELSE okSends
         /\ rpc' = IF ok THEN "load" ELSE "idle"
    /\ UNCHANGED <<messagesSent, messagesReceived, tpc, tReg, rReg, framesIn,
                   loopSends>>
    /\ UNCHANGED notCount

\* messagesSent++ in the callback: the load.
callbackLoad ==
    /\ rpc = "load"
    /\ rReg' = messagesSent
    /\ rpc' = "store"
    /\ UNCHANGED <<messagesSent, messagesReceived, tpc, tReg, okSends, framesIn,
                   loopSends>>
    /\ UNCHANGED notCount

\* messagesSent++ in the callback: the store.
callbackStore ==
    /\ rpc = "store"
    /\ messagesSent' = rReg + 1
    /\ rpc' = "idle"
    /\ UNCHANGED <<messagesReceived, tpc, tReg, rReg, okSends, framesIn,
                   loopSends>>
    /\ UNCHANGED notCount

CountNext ==
    \/ loopSend
    \/ loopLoad
    \/ loopStore
    \/ callbackReceive
    \/ callbackSend
    \/ callbackLoad
    \/ callbackStore

SpecCount == CountInit /\ [][CountNext]_vars

\* ------------------------------------------------------------------------
\* Claims about the server endpoint
\* ------------------------------------------------------------------------

\* C9: after a discoverMCPServer in which mDNS started and found no server,
\* the endpoint is the fallback host with the default port, taken from the
\* fallback, when a fallback host is configured, and has an empty host when
\* none is.
C9_FallbackOnZeroResults ==
    (nLast.called /\ nLast.begin /\ nLast.n = 0)
        => IF nFallback # ""
           THEN /\ mcpServerIP = nFallback
                /\ mcpServerPort = DefaultPort(nVariant)
                /\ nLast.source = "fallback"
           ELSE /\ mcpServerIP = ""
                /\ nLast.source = "unset"

\* C9 witness: a discovery that found no server left the node holding the
\* configured fallback host.
C9_Witness ==
    /\ nLast.kind = "status"
    /\ nLast.called /\ nLast.begin /\ nLast.n = 0
    /\ nFallback = "192.168.1.130"
    /\ mcpServerIP = "192.168.1.130"
    /\ mcpServerPort = 8080

\* C10: after a discoverMCPServer in which mDNS could not be started, with a
\* fallback host configured, the endpoint is the fallback host with the
\* default port, taken from the fallback.
C10_FallbackOnOutrightFailure ==
    (nLast.called /\ ~nLast.begin /\ nFallback # "")
        => /\ mcpServerIP = nFallback
           /\ mcpServerPort = DefaultPort(nVariant)
           /\ nLast.source = "fallback"

\* C11: discoverMCPServer is only called while no server host is held, and
\* once a host is held no handler of the running node changes host or port
\* except the reset of a failed WiFi connection attempt.
C11_StickyEndpoint ==
    [][/\ nLast'.called => nLast'.before = ""
       /\ (/\ npc = "loop" /\ npc' = "loop"
           /\ mcpServerIP # ""
           /\ <<mcpServerIP', mcpServerPort'>> # <<mcpServerIP, mcpServerPort>>)
          => /\ nLast'.kind = "reconnect"
             /\ ~nWifi'
             /\ ~nLast'.called
             /\ mcpServerIP' = "" /\ mcpServerPort' = 0]_vars

\* C11 witness: a held endpoint was reset by a failed reconnection.
C11_Witness ==
    /\ nLast.kind = "reconnect"
    /\ nLast.held = "192.168.1.130"
    /\ ~nLast.wifi
    /\ mcpServerIP = "" /\ mcpServerPort = 0

\* ------------------------------------------------------------------------
\* Claims about reports and firmware checks
\* ------------------------------------------------------------------------

\* C12: a sendStatusToMCP entered with no server host held, after which none
\* is held either, issues no HTTP request, leaves the port as it was and
\* leaves the status snapshot unchanged.
C12_NoReportWithoutServer ==
    [][(/\ nLast'.kind = "status"
        /\ mcpServerIP = "" /\ mcpServerIP' = "")
       => /\ nLast'.requests = <<>>
          /\ mcpServerPort' = mcpServerPort
          /\ botStatus' = botStatus]_vars

\* C12 witness: a connected node without a server ran sendStatusToMCP, its
\* discovery failed, and nothing was requested.
C12_Witness ==
    /\ nLast.kind = "status"
    /\ nLast.held = ""
    /\ nLast.called /\ ~nLast.ret
    /\ nLast.wifi
    /\ mcpServerIP = ""
    /\ nLast.requests = <<>>

\* C13: a sendStatusToMCP of a connected node that called discoverMCPServer
\* and holds a server host afterwards has posted the status to it.
C13_ReportsAfterDiscovery ==
    (/\ nLast.kind = "status"
     /\ nLast.called
     /\ nLast.wifi
     /\ mcpServerIP # "")
        => nLast.requests
              = <<Request("POST", mcpServerIP, mcpServerPort,
                          <<mcpStatusEndpoint>>)>>

\* C14: after a firmware check that the server answered, an update was
\* started exactly when the reported version is greater than
\* FIRMWARE_VERSION, and from the held endpoint followed by /firmware/ and
\* the reported filename.
C14_UpdateIffNewer ==
    (/\ nLast.kind = "firmware"
     /\ nLast.requests # <<>>
     /\ nLast.reply.code = 200)
        => /\ (nLast.update # <<>>) <=> (nLast.reply.version > FIRMWARE_VERSION)
           /\ nLast.update # <<>> =>
                nLast.update
                  = <<Request("GET", nLast.requests[1].host,
                              nLast.requests[1].port,
                              <<"/firmware/", nLast.reply.filename>>)>>

\* ------------------------------------------------------------------------
\* Claims about the node status
\* ------------------------------------------------------------------------

\* C19: a node whose esp_now_message_t is larger than the link MTU never
\* has the status active.
C19_OversizedFrameNotActive ==
    (nVariant \in LinkVariants /\ Layout(nVariant).size > ESP_NOW_MAX)
        => botStatus.status # "active"

C15_HeartbeatToEveryPeer ==
    \A n \in Nodes :
        (lOp.kind = "heartbeat" /\ lOp.node = n /\ lAdds = <<>>)
            => /\ \A i \in 1..Len(lPeers[n]) :
                    Cardinality({k \in 1..Len(lSends) :
                                    /\ lSends[k].dst = lPeers[n][i].addr
                                    /\ lSends[k].type = T_heartbeat
                                    /\ lSends[k].handed # <<>>}) = 1
               /\ \A k \in 1..Len(lNet) :
                    (lNet[k].src = n /\ lNet[k].sent = T_heartbeat)
                        => ReadFrame(lVariant, lNet[k].bytes).payload = botID(n)

\* C16: a node that has received a heartbeat or a status, and whose radio
\* refused no registration, has handed exactly one reply to the radio,
\* heartbeat_ack or status_ack, for the address the frame came from, and
\* the radio knew that address; a node that has received a reply has sent
\* nothing.
C16_OneReplyPerRequest ==
    \A n \in Nodes :
        (/\ lOp.kind = "receive" /\ lOp.node = n
         /\ \A k \in 1..Len(lAdds) : lAdds[k].ok)
            => /\ lRecv[n].message_type \in {T_heartbeat, T_status}
                  => /\ Len(lSends) = 1
                     /\ lSends[1].dst = lRecv[n].from
                     /\ lSends[1].type =
                          IF lRecv[n].message_type = T_heartbeat
                          THEN T_heartbeat_ack ELSE T_status_ack
                     /\ lSends[1].handed # <<>>
                     /\ lSends[1].handed[1].result
                          # "ESP_ERR_ESPNOW_NOT_FOUND"
               /\ lRecv[n].sent \in {T_heartbeat_ack, T_status_ack}
                  => lSends = <<>>

\* C17: the receive callback, run for a frame whose type it reads as
\* neither heartbeat nor status (an acknowledgement or an unknown type),
\* hands nothing to the radio, puts nothing on the air and leaves the
\* registries, the server endpoint and the node status as they were.
C17_DroppedQuietly ==
    [][\A n \in Nodes :
         (/\ lOp'.kind = "receive" /\ lOp'.node = n
          /\ \/ endsWith(lRecv'[n].message_type, S_ack)
             \/ lRecv'[n].message_type \notin {T_heartbeat, T_status})
            => /\ lSends' = <<>>
               /\ lNet' = Tail(lNet)
               /\ lPeers' = lPeers
               /\ UNCHANGED nodeVars]_vars

\* C17 witness: a node received an acknowledgement and sent nothing.
C17_Witness ==
    /\ lOp.kind = "receive"
    /\ lRecv[lOp.node].sent = T_status_ack
    /\ lRecv[lOp.node].class = "ack"
    /\ lSends = <<>>

\* C18: after the receive callback has run for a frame, the registry entry
\* of the peer the frame came from holds a last_seen time.
C18_LastSeenUpdated ==
    \A n \in Nodes :
        (lOp.kind = "receive" /\ lOp.node = n)
            => \E i \in 1..Len(lPeers[n]) :
                  /\ lPeers[n][i].addr = lRecv[n].from
                  /\ "last_seen" \in DOMAIN lPeers[n][i]

\* ------------------------------------------------------------------------
\* Claims about the lifecycle
\* ------------------------------------------------------------------------

\* C21: a node that has just reconnected to WiFi and whose battery is not
\* low has the status active.
C21_ActiveAgainWhenConnected ==
    (/\ npc = "loop"
     /\ nLast.kind = "reconnect"
     /\ nLast.wifi
     /\ botStatus.batteryLevel >= 200
     /\ botStatus.status # "low_battery")
        => botStatus.status = "active"

\* C22: a node restarts only on a command from a sender it has registered
\* as a peer.
C22_RestartOnlyFromKnownSender ==
    mLast.restart => mLast.known

\* C23: whenever a running node finds its WiFi interface down, a loop()
\* iteration that attempts to reconnect is possible, in the generic
\* template as in the other variants.
C23_ReconnectWheneverDown ==
    (npc = "loop" /\ ~nWifi) => ENABLED reconnect

\* The value of a hexadecimal digit character, 16 for any other character.
DigitValue(ch) ==
    IF ch >= 48 /\ ch <= 57 THEN ch - 48
    ELSE IF ch >= 97 /\ ch <= 102 THEN ch - 87
    ELSE 16

\* The digits ds, padded on the left with zeros to sixteen.
PadSixteen(ds) == [i \in 1..(16 - Len(ds)) |-> 0] \o ds

\* C24: a running node's id is its configured name when that is not empty,
\* and otherwise ESP32_Bot_ followed by hexadecimal digits that read back
\* as its hardware address; no handler that runs after setup() changes it.
C24_IdResolvedOnce ==
    npc = "loop" =>
        IF nName # <<>> THEN nBotID = nName
        ELSE /\ Len(nBotID) > Len(ESP32_Bot_)
             /\ Len(nBotID) <= Len(ESP32_Bot_) + 16
             /\ SubSeq(nBotID, 1, Len(ESP32_Bot_)) = ESP32_Bot_
             /\ PadSixteen([i \in 1..(Len(nBotID) - Len(ESP32_Bot_)) |->
                              DigitValue(nBotID[Len(ESP32_Bot_) + i])])
                    = Nibbles(nMac)

\* A node without a configured name, running, after a handler other than
\* setup() has run.
C24_Witness ==
    /\ npc = "loop"
    /\ nName = <<>>
    /\ nLast.kind \in {"reconnect", "status", "firmware", "idle"}
    /\ nBotID = resolve(nName, nMac)

\* C25: a node that has relayed an emergency frame received with hop_count
\* below 3 has handed the radio exactly one copy for each of its peers,
\* each with the hop_count one higher.
C25_OneCopyToEveryPeer ==
    (mLast.type = T_emergency /\ mLast.hop < 3 /\ ~mLast.restart) =>
        \A i \in 1..Len(mPeers[mLast.node]) :
            /\ Cardinality({k \in 1..Len(mLast.sends) :
                              mLast.sends[k].dst = mPeers[mLast.node][i].addr}) = 1
            /\ mLast.sends[i].hop = mLast.hop + 1

\* The most peers a node of the mesh has, and the most frames one emergency
\* frame can then turn into on its three hops.
Fanout ==
    CHOOSE f \in {Len(MeshKnown(n)) : n \in MeshNodes} :
        \A n \in MeshNodes : Len(MeshKnown(n)) <= f
FloodBound == Fanout + Fanout * Fanout + Fanout * Fanout * Fanout

\* Frames the nodes have handed to the radio since they started.
Transmissions ==
    mStats["M1"].messagesSent + mStats["M2"].messagesSent
        + mStats["M3"].messagesSent

EmergencyInFlight ==
    \E k \in 1..Len(mNet) :
        CStr(mNet[k].bytes, Layout("espnow").message_type) = T_emergency

\* C26: the nodes transmit at most FloodBound frames for every frame that
\* reached the mesh from outside, and from some point on no emergency frame
\* is in flight, although the peer tables form a cycle.
C26_FloodTerminates ==
    /\ [](Transmissions <= FloodBound * mInjected)
    /\ <>[](~EmergencyInFlight)

\* An emergency frame that came in with hop_count 0 has made its three
\* hops around the cycle and nothing is in flight.
C26_Witness ==
    /\ mInjected >= 1
    /\ mLast.type = T_emergency
    /\ mLast.from \in MeshNodes
    /\ mLast.hop = 3
    /\ Transmissions >= 7
    /\ mNet = <<>>

\* C27: whether an emergency frame is relayed depends on its hop_count
\* alone: a node relays every emergency frame that arrives with hop_count
\* below 3, once per peer it has, whoever sent it and whatever the node has
\* received or relayed before.
C27_RelayedWhateverSeen ==
    (mLast.type = T_emergency /\ mLast.hop < 3) =>
        Len(mLast.sends) = Len(mPeers[mLast.node])

\* One frame has reached the mesh from outside, and a node that has already
\* received and relayed it receives a copy from one of its own peers and
\* relays that too.
C27_Witness ==
    /\ mInjected = 1
    /\ mLast.type = T_emergency
    /\ mLast.from \in MeshNodes
    /\ mLast.known
    /\ mLast.hop < 3
    /\ mLast.sends # <<>>
    /\ mStats[mLast.node].messagesReceived >= 2

\* C28: after the receive callback of a node has processed a frame, the
\* address the frame came from is among the node's peers.
C28_SenderRegisteredOnReceive ==
    lOp.kind = "receive" =>
        Exists(lPeers[lOp.node], lRecv[lOp.node].from)

C30_NoRequestInReceiveCallback ==
    nLast.kind = "receive" => nLast.requests = <<>>

\* C31: the host and the port of a request built in a callback are those of
\* one endpoint the loop has assigned, or both those of the unset endpoint.
C31_RequestFromOneAssignment ==
    eReq.built => <<eReq.host, eReq.port>> \in eAssigned \cup {Unset}

\* C32: a receive callback that finds no server held calls
\* discoverMCPServer before it gives the activity report up.
C32_ActivityReportLocates ==
    (nLast.kind = "receive" /\ nLast.held = "") => nLast.called

\* C33: a loop() iteration whose status report finds no server held calls
\* discoverMCPServer.
C33_StatusReportLocates ==
    (npc = "loop" /\ nLast.kind = "status" /\ nLast.held = "")
        => nLast.called

\* C34: when the loop begins a status report, at least statusUpdateInterval
\* milliseconds have passed since it began the one before.
C34_IntervalBetweenAttempts ==
    (sVariant \in {"wificlient", "generic"} /\ sFired.due /\ sFired.gap >= 0)
        => sFired.gap >= Interval(sVariant)

\* C35: a node that setup() has made active has run the WiFi association
\* and then discoverMCPServer.
C35_ActiveAfterDiscovery ==
    (nVariant \in {"wificlient", "generic"}
        /\ npc = "loop" /\ nLast.kind = "setup" /\ botStatus.status = "active")
        => nLast.called

\* C36: a call of initializeWiFi polls at most 20 times and then returns,
\* connected or not; a call that ran out of polls reports the failure.
C36_AssociationTerminates ==
    /\ [](sAttempts <= 20)
    /\ [][initializeWiFi_return
            => (sReport' = "failed" <=> (~sWifi /\ sAttempts = 20))]_vars
    /\ (spc \in {"setup_wifi", "loop_wifi"}) ~> (spc \notin {"setup_wifi", "loop_wifi"})

C36_Witness ==
    sAttempts = 20 /\ ~sWifi /\ sReport = "failed" /\ spc = "tasks"

\* C37: bot_wifi_client calls discoverMCPServer only with the interface
\* connected.
C37_DiscoveryOnlyWhenConnected ==
    (nVariant = "wificlient" /\ nLast.kind \in {"setup", "reconnect", "status"}
        /\ nLast.called) => nLast.wifi

\* C38: the timer test of loop() fires exactly when the interval has passed
\* since the sample it compares with, before, across and after the wrap of
\* the 32-bit clock.
C38_TimerCorrectAcrossWrap ==
    sVariant \in {"generic", "espnow"}
        => sFired.due = Elapsed(sVariant, sFired.elapsed)

C38_Witness ==
    /\ sVariant \in {"generic", "espnow"}
    /\ sFired.due /\ ~sFired.wrapped /\ sFired.crossed

\* C39: once the motion has stopped the alert mode is left: isMotionMode
\* becomes false, unless motion is seen again first.
C39_AlertModeLeft ==
    (~mPin /\ isMotionMode) ~> (mPin \/ ~isMotionMode)

\* C40: with both tasks outside their sends, messagesSent is the number of
\* sends the radio accepted and messagesReceived the number of frames
\* received.
C40_CountersExact ==
    (tpc = "idle" /\ rpc = "idle")
        => (messagesSent = okSends /\ messagesReceived = framesIn)

====
